---- MODULE Spec2Model ----
(***************************************************************************)
(* Model of the lighting fade controller (main/app/fade_controller.c):     *)
(* the fade state machine, the single-precision interpolation of the five  *)
(* channels and the rate-limited transmission of the channel values to the *)
(* LCC event sink.                                                         *)
(***************************************************************************)
EXTENDS Integers, Sequences, FiniteSets, TLC

(***************************************************************************)
(* Single-precision arithmetic.  A float is [m, e], the value m / 2^e,     *)
(* with m < 2^24 and m odd unless e = 0 (one record per value).  Every     *)
(* float of the controller is in 0..255, so e >= 0.  TLC's integers are    *)
(* 32 bits wide: products of an 8-bit integer and a 24-bit mantissa are    *)
(* kept in two limbs, A * 2^12 + B.                                        *)
(***************************************************************************)
FLT_MANT_DIG == 24

Pow2(n) == 2 ^ n

RECURSIVE BitLen(_)
BitLen(n) == IF n = 0 THEN 0 ELSE 1 + BitLen(n \div 2)

RECURSIVE Canon(_, _)
Canon(m, e) ==
    IF m = 0 THEN [m |-> 0, e |-> 0]
    ELSE IF e > 0 /\ m % 2 = 0 THEN Canon(m \div 2, e - 1)
    ELSE [m |-> m, e |-> e]

\* (float)n for an 8-bit n: exact.
IntToFloat(n) == [m |-> n, e |-> 0]

\* 1.0f
FloatOne == [m |-> 1, e |-> 0]

\* f > 1.0f
FloatGtOne(f) == f.e <= 30 /\ f.m > Pow2(f.e)

\* f >= 1.0f
FloatGeOne(f) == f.e <= 30 /\ f.m >= Pow2(f.e)

\* (float)t / (float)d, d > 0, both below 2^24 (their conversions are exact):
\* binary long division to FLT_MANT_DIG significant bits, round to nearest even.
RECURSIVE FDivStep(_, _, _, _)
FDivStep(q, r, d, k) ==
    IF q >= Pow2(FLT_MANT_DIG - 1)
    THEN LET up == (2 * r > d) \/ (2 * r = d /\ q % 2 = 1)
         IN  Canon(IF up THEN q + 1 ELSE q, k)
    ELSE IF 2 * r >= d THEN FDivStep(2 * q + 1, 2 * r - d, d, k + 1)
    ELSE FDivStep(2 * q, 2 * r, d, k + 1)

FDiv(t, d) == IF t = 0 THEN IntToFloat(0) ELSE FDivStep(t \div d, t % d, d, 0)

\* The exact product a * f of an integer a in 0..255 and a float f, as the
\* dyadic (A * 2^12 + B) / 2^e.
ExactMul(a, f) ==
    LET mh == f.m \div Pow2(12)
        ml == f.m % Pow2(12)
        lo == a * ml
    IN  [A |-> a * mh + lo \div Pow2(12), B |-> lo % Pow2(12), e |-> f.e]

\* A float as a dyadic.
AsDyadic(f) == [A |-> f.m \div Pow2(12), B |-> f.m % Pow2(12), e |-> f.e]

\* A dyadic (below 2^32 / 2^e) rounded to a float, to nearest even.
RoundDyadic(X) ==
    IF X.A < Pow2(12) THEN Canon(X.A * Pow2(12) + X.B, X.e)
    ELSE LET s  == BitLen(X.A) - 12
             Q  == X.A * Pow2(12 - s) + X.B \div Pow2(s)
             R  == X.B % Pow2(s)
             up == (2 * R > Pow2(s)) \/ (2 * R = Pow2(s) /\ Q % 2 = 1)
         IN  IF X.e >= s THEN Canon(IF up THEN Q + 1 ELSE Q, X.e - s)
             ELSE [m |-> (IF up THEN Q + 1 ELSE Q) * Pow2(s - X.e), e |-> 0]

\* A dyadic X <= 255 as i + n / 2^26 + (a rest in (0, 2^-26) when st).
Split(X) ==
    LET hiBits == IF X.e >= 12 THEN X.e - 12 ELSE 0
        Ahi == IF hiBits > 30 THEN 0 ELSE X.A \div Pow2(hiBits)
        Alo == IF hiBits > 30 THEN X.A ELSE X.A % Pow2(hiBits)
    IN  IF X.e < 12
        THEN LET P == X.A * Pow2(12) + X.B
             IN  [i  |-> P \div Pow2(X.e),
                  n  |-> (P % Pow2(X.e)) * Pow2(26 - X.e),
                  st |-> FALSE]
        ELSE IF X.e <= 26
        THEN [i  |-> Ahi,
              n  |-> (Alo * Pow2(12) + X.B) * Pow2(26 - X.e),
              st |-> FALSE]
        ELSE LET R == X.e - 26
             IN  IF R < 12
                 THEN [i  |-> Ahi,
                       n  |-> Alo * Pow2(12 - R) + X.B \div Pow2(R),
                       st |-> X.B % Pow2(R) # 0]
                 ELSE IF R - 12 > 30
                 THEN [i |-> Ahi, n |-> 0, st |-> (Alo # 0 \/ X.B # 0)]
                 ELSE [i  |-> Ahi,
                       n  |-> Alo \div Pow2(R - 12),
                       st |-> (Alo % Pow2(R - 12) # 0 \/ X.B # 0)]

\* i + n / 2^26 (+ a rest in (0, 2^-26) when st), i in 0..511, rounded to a
\* float, to nearest even.
RoundFixed(i, n, st) ==
    LET nb   == IF i > 0 THEN 26 + BitLen(i) ELSE BitLen(n)
        drop == IF nb > FLT_MANT_DIG THEN nb - FLT_MANT_DIG ELSE 0
        q    == n \div Pow2(drop)
        r    == n % Pow2(drop)
        up   == drop > 0 /\ (2 * r > Pow2(drop)
                             \/ (2 * r = Pow2(drop) /\ (st \/ q % 2 = 1)))
    IN  Canon(i * Pow2(26 - drop) + q + (IF up THEN 1 ELSE 0), 26 - drop)

\* s0 + X (neg = FALSE) or s0 - X (neg = TRUE) for an integer s0 in 0..255
\* and a dyadic X with 0 <= s0 +- X <= 255, rounded to a float.
FAddInt(s0, neg, X) ==
    IF s0 = 0 /\ ~neg THEN RoundDyadic(X)
    ELSE LET sp    == Split(X)
             whole == sp.n = 0 /\ ~sp.st
             i == IF ~neg THEN s0 + sp.i
                  ELSE IF whole THEN s0 - sp.i ELSE s0 - sp.i - 1
             n == IF ~neg \/ whole THEN sp.n
                  ELSE Pow2(26) - sp.n - (IF sp.st THEN 1 ELSE 0)
         IN  RoundFixed(i, n, sp.st)

\* roundf(f) for f >= 0: to the nearest integer, halfway cases away from zero.
roundf(f) ==
    IF f.e > 30 THEN 0
    ELSE LET d == Pow2(f.e)
         IN  IF 2 * (f.m % d) >= d THEN f.m \div d + 1 ELSE f.m \div d

\* (uint8_t)x
uint8(x) == x % 256

(***************************************************************************)
(* Program constants and types.                                            *)
(***************************************************************************)
MIN_TX_INTERVAL_MS == 10

LIGHT_PARAM_RED == 0
LIGHT_PARAM_GREEN == 1
LIGHT_PARAM_BLUE == 2
LIGHT_PARAM_WHITE == 3
LIGHT_PARAM_BRIGHTNESS == 4
LIGHT_PARAM_COUNT == 5

Params == 0 .. (LIGHT_PARAM_COUNT - 1)

FADE_STATE_IDLE == "IDLE"
FADE_STATE_FADING == "FADING"
FADE_STATE_COMPLETE == "COMPLETE"

ESP_OK == "ESP_OK"
ESP_ERR_INVALID_STATE == "ESP_ERR_INVALID_STATE"
ESP_ERR_INVALID_ARG == "ESP_ERR_INVALID_ARG"
ESP_ERR_NOT_FOUND == "ESP_ERR_NOT_FOUND"
ESP_FAIL == "ESP_FAIL"
ESP_ERR_NO_MEM == "ESP_ERR_NO_MEM"

\* The three kinds of result of lcc_node_send_lighting_event the tick tells
\* apart: ok, not ready (ESP_ERR_INVALID_STATE), any other error.
SinkResults == {ESP_OK, ESP_ERR_INVALID_STATE, ESP_FAIL}

\* Mutant: the cursor position used as the parameter itself.
TX_ORDER_Identity == [k \in Params |-> k]

\* Transmission order, by cursor position 0..4.
TX_ORDER ==
    [k \in Params |->
        CASE k = 0 -> LIGHT_PARAM_BRIGHTNESS
          [] k = 1 -> LIGHT_PARAM_RED
          [] k = 2 -> LIGHT_PARAM_GREEN
          [] k = 3 -> LIGHT_PARAM_BLUE
          [] OTHER -> LIGHT_PARAM_WHITE]

Light(b, r, g, bl, w) ==
    [brightness |-> b, red |-> r, green |-> g, blue |-> bl, white |-> w]

get_param(st, param) ==
    CASE param = LIGHT_PARAM_RED -> st.red
      [] param = LIGHT_PARAM_GREEN -> st.green
      [] param = LIGHT_PARAM_BLUE -> st.blue
      [] param = LIGHT_PARAM_WHITE -> st.white
      [] param = LIGHT_PARAM_BRIGHTNESS -> st.brightness
      [] OTHER -> 0

set_param(st, param, value) ==
    CASE param = LIGHT_PARAM_RED -> [st EXCEPT !.red = value]
      [] param = LIGHT_PARAM_GREEN -> [st EXCEPT !.green = value]
      [] param = LIGHT_PARAM_BLUE -> [st EXCEPT !.blue = value]
      [] param = LIGHT_PARAM_WHITE -> [st EXCEPT !.white = value]
      [] param = LIGHT_PARAM_BRIGHTNESS -> [st EXCEPT !.brightness = value]
      [] OTHER -> st

(***************************************************************************)
(* Bounds of the model.                                                    *)
(***************************************************************************)
\* The clock (microseconds since boot) stops the model at MaxClock.
MaxClock == 30000
\* Calls of fade_controller_start, fade_controller_apply_immediate and
\* fade_controller_abort, and sends the sink answers with an error, together.
MaxCalls == 3

\* Time between two calls of the tick (microseconds).
TickSteps == {5000, 10000}
\* Time a burst of sends takes, between the tick's two clock reads.
BurstDelays == {0, 5000}
MinStep == CHOOSE a \in TickSteps : \A b \in TickSteps : a <= b
MaxStep == CHOOSE a \in TickSteps : \A b \in TickSteps : a >= b
\* Cursor positions at which the sink may return an error.
FaultPositions == {0, 2}
\* Lighting states and durations (ms) the callers ask for.
LightOff == Light(0, 0, 0, 0, 0)
LightDim == Light(1, 0, 0, 0, 0)
LightA == Light(255, 54, 0, 1, 3)
FadeRequests ==
    {[target |-> LightA, duration_ms |-> 12],
     [target |-> LightDim, duration_ms |-> 30]}
ImmediateRequests == {LightA}

(***************************************************************************)
(* State.                                                                  *)
(***************************************************************************)
VARIABLES
    s_fade,          \* the controller's static state (fade_state_internal_t)
    clock,           \* esp_timer_get_time(): microseconds since boot
    fp_contract,     \* the build contracts a * b + c into one rounding (FMA)
    \* History of the calls and of the sink, for stating the properties.
    last_op,         \* the operation called last
    ret,             \* what it returned
    tx_log,          \* the sends it attempted, in order
    round_log,       \* the sends attempted in the current round
    last_sent,       \* per channel, the value the sink accepted last (-1: none)
    tick_elapsed_ms, \* elapsed_ms of the last tick in FADING (-1: none yet)
    rounds,          \* when rounds began, and the gap between the last two
    fade_hist,       \* what happened since the last successful start
    calls,           \* how many starts, aborts and sink faults so far
    twin,            \* s_fade of a second run given the same calls and tick
                     \* times and a sink that accepts every send
    twin_log,        \* the sends the second run attempted in its last tick
    scene_storage,   \* scenes.json on the SD card and the cache s_scenes
    lcc_node         \* the LCC node (lcc_node.cpp) and what it handed its stack

vars == <<s_fade, clock, fp_contract, last_op, ret, tx_log, round_log,
          last_sent, tick_elapsed_ms, rounds, fade_hist, calls, twin,
          twin_log, scene_storage, lcc_node>>

AllOk == [k \in Params |-> ESP_OK]

\* What is left of MaxCalls.
CallsLeft == MaxCalls - (calls.starts + calls.aborts + calls.faults)

(***************************************************************************)
(* Interpolation (fade_controller_tick, lines 219-248).                    *)
(***************************************************************************)
\* Mutant: the progress is not clamped to 1.
Progress_NoClamp(elapsed_ms, duration_ms) ==
    IF duration_ms = 0 THEN FloatOne ELSE FDiv(elapsed_ms, duration_ms)

\* progress: elapsed_ms / duration_ms as a float, at most 1.0f.
Progress(elapsed_ms, duration_ms) ==
    IF duration_ms = 0 THEN FloatOne
    ELSE LET p == FDiv(elapsed_ms, duration_ms)
         IN  IF FloatGtOne(p) THEN FloatOne ELSE p

\* Mutant: the difference target_val - start_val taken as an 8-bit unsigned
\* value.
Interpolate_Unsigned(start_val, target_val, progress, contract) ==
    LET a    == (target_val - start_val) % 256
        prod == ExactMul(a, progress)
    IN  FAddInt(start_val, FALSE,
                IF contract THEN prod ELSE AsDyadic(RoundDyadic(prod)))

\* new_val = start_val + (target_val - start_val) * progress.  The difference
\* of two 8-bit values is exact; the product is rounded to a float before the
\* sum unless the build contracts the expression.
Interpolate(start_val, target_val, progress, contract) ==
    LET neg  == target_val < start_val
        a    == IF neg THEN start_val - target_val ELSE target_val - start_val
        prod == ExactMul(a, progress)
    IN  FAddInt(start_val, neg,
                IF contract THEN prod ELSE AsDyadic(RoundDyadic(prod)))

\* Mutant: the cast without roundf.
TruncToByte(x) == IF x.e > 30 THEN 0 ELSE uint8(x.m \div Pow2(x.e))

\* (uint8_t)roundf(x)
RoundToByte(x) == uint8(roundf(x))

RECURSIVE SetParams(_, _, _)
SetParams(st, i, flt) ==
    IF i >= LIGHT_PARAM_COUNT THEN st
    ELSE SetParams(set_param(st, i, RoundToByte(flt[i])), i + 1, flt)

(***************************************************************************)
(* Transmission (fade_controller_tick, lines 250-287).                     *)
(***************************************************************************)
\* Mutant: an interrupted round is not finished once the fade has run out.
NeedFinishTx_Never(progress, next_param_index) == FALSE

\* Mutant: a round is also owed whenever the duration has passed.
NeedFinishTx_AtEnd(progress, next_param_index) == FloatGeOne(progress)

NeedFinishTx(progress, next_param_index) ==
    FloatGeOne(progress) /\ next_param_index # 0

\* Mutant: the interval taken in microseconds without the factor 1000.
RateLimit_Micro(now_us, last_tx_us) ==
    (now_us - last_tx_us) >= MIN_TX_INTERVAL_MS

RateLimitElapsed(now_us, last_tx_us) ==
    (now_us - last_tx_us) >= MIN_TX_INTERVAL_MS * 1000

\* The cursor after a send that returned err.
IndexAfter(next_param_index, err) ==
    IF err = ESP_OK THEN next_param_index + 1
    ELSE IF err = ESP_ERR_INVALID_STATE THEN next_param_index
    ELSE next_param_index + 1

\* Mutant: the burst stops at any send that did not return ESP_OK.
BurstBreaks_AnyError(err) == err # ESP_OK

\* The burst stops at a send that returned err.
BurstBreaks(err) == err # ESP_OK /\ err = ESP_ERR_INVALID_STATE

\* The while loop: res[k] is what the sink returns for the send at cursor k.
RECURSIVE Burst(_, _, _, _, _)
Burst(idx, cur, res, any_sent, log) ==
    IF idx >= LIGHT_PARAM_COUNT
    THEN [idx |-> idx, any_sent |-> any_sent, log |-> log]
    ELSE LET param == TX_ORDER[idx]
             value == get_param(cur, param)
             err   == res[idx]
             log1  == Append(log, [pos |-> idx, param |-> param,
                                   value |-> value, err |-> err])
         IN  IF BurstBreaks(err)
             THEN [idx |-> IndexAfter(idx, err), any_sent |-> any_sent,
                   log |-> log1]
             ELSE Burst(IndexAfter(idx, err), cur, res,
                        any_sent \/ err = ESP_OK, log1)

\* Completion check (lines 289-309).
AllAtTarget(cur, tgt) ==
    \A i \in Params : get_param(cur, i) = get_param(tgt, i)

\* Mutant: completion without regard to the pending flag.
CompletionDue_IgnorePending(progress, tx_pending, next_param_index) ==
    FloatGeOne(progress) /\ next_param_index = 0

\* Mutant: completion as soon as a round is done.
CompletionDue_RoundDone(progress, tx_pending, next_param_index) ==
    ~tx_pending /\ next_param_index = 0 /\ progress.m >= 0

\* Mutant: completion without regard to the progress.
CompletionDue_NoProgress(progress, tx_pending, next_param_index) ==
    ~tx_pending /\ next_param_index = 0

CompletionDue(progress, tx_pending, next_param_index) ==
    FloatGeOne(progress) /\ ~tx_pending /\ next_param_index = 0

\* The FADING branch of fade_controller_tick up to the rate limit check
\* (lines 214-255), read at now_us.
TickInterp(sf, now_us, contract) ==
    LET elapsed_us == now_us - sf.fade_start_us
        elapsed_ms == elapsed_us \div 1000
        progress   == Progress(elapsed_ms, sf.duration_ms)
        new_float  == [i \in Params |->
                          Interpolate(get_param(sf.start, i),
                                      get_param(sf.target, i),
                                      progress, contract)]
        values_changed ==
            \E i \in Params :
                RoundToByte(sf.current_float[i]) # RoundToByte(new_float[i])
    IN  [elapsed_ms |-> elapsed_ms,
         progress |-> progress,
         new_float |-> new_float,
         values_changed |-> values_changed,
         current |-> SetParams(sf.current, 0, new_float),
         transmit |-> (values_changed \/ sf.tx_pending
                         \/ NeedFinishTx(progress, sf.next_param_index))
                      /\ RateLimitElapsed(now_us, sf.last_tx_us)]

\* Mutant: a round that reached the end leaves the cursor behind white.
TickFading_NoWrap(sf, t, end_us, res) ==
    LET b == IF t.transmit
             THEN Burst(sf.next_param_index, t.current, res, FALSE, <<>>)
             ELSE [idx |-> sf.next_param_index, any_sent |-> FALSE,
                   log |-> <<>>]
        wrapped  == FALSE
        idx2     == IF wrapped THEN 0 ELSE b.idx
        pending2 == IF wrapped THEN FALSE ELSE sf.tx_pending
        due      == CompletionDue(t.progress, pending2, idx2)
        done     == due /\ AllAtTarget(t.current, sf.target)
        snap     == due /\ ~AllAtTarget(t.current, sf.target)
    IN  [sf |-> [sf EXCEPT
                   !.current_float = t.new_float,
                   !.current = IF snap THEN sf.target ELSE t.current,
                   !.last_tx_us = IF b.any_sent THEN end_us ELSE @,
                   !.next_param_index = idx2,
                   !.tx_pending = IF snap THEN TRUE ELSE pending2,
                   !.state = IF done THEN FADE_STATE_COMPLETE ELSE @],
         log |-> b.log,
         any_sent |-> b.any_sent]

\* Mutant: the burst sends the values current had before this tick.
TickFading_StaleValues(sf, t, end_us, res) ==
    LET b == IF t.transmit
             THEN Burst(sf.next_param_index, sf.current, res, FALSE, <<>>)
             ELSE [idx |-> sf.next_param_index, any_sent |-> FALSE,
                   log |-> <<>>]
        wrapped  == t.transmit /\ b.idx >= LIGHT_PARAM_COUNT
        idx2     == IF wrapped THEN 0 ELSE b.idx
        pending2 == IF wrapped THEN FALSE ELSE sf.tx_pending
        due      == CompletionDue(t.progress, pending2, idx2)
        done     == due /\ AllAtTarget(t.current, sf.target)
        snap     == due /\ ~AllAtTarget(t.current, sf.target)
    IN  [sf |-> [sf EXCEPT
                   !.current_float = t.new_float,
                   !.current = IF snap THEN sf.target ELSE t.current,
                   !.last_tx_us = IF b.any_sent THEN end_us ELSE @,
                   !.next_param_index = idx2,
                   !.tx_pending = IF snap THEN TRUE ELSE pending2,
                   !.state = IF done THEN FADE_STATE_COMPLETE ELSE @],
         log |-> b.log,
         any_sent |-> b.any_sent]

\* The rest of the branch (lines 256-311): the burst, with res[k] what the
\* sink returns for the send at cursor k and end_us the clock read after the
\* burst, and the completion check.
TickFading(sf, t, end_us, res) ==
    LET b == IF t.transmit
             THEN Burst(sf.next_param_index, t.current, res, FALSE, <<>>)
             ELSE [idx |-> sf.next_param_index, any_sent |-> FALSE,
                   log |-> <<>>]
        wrapped  == t.transmit /\ b.idx >= LIGHT_PARAM_COUNT
        idx2     == IF wrapped THEN 0 ELSE b.idx
        pending2 == IF wrapped THEN FALSE ELSE sf.tx_pending
        due      == CompletionDue(t.progress, pending2, idx2)
        done     == due /\ AllAtTarget(t.current, sf.target)
        snap     == due /\ ~AllAtTarget(t.current, sf.target)
    IN  [sf |-> [sf EXCEPT
                   !.current_float = t.new_float,
                   !.current = IF snap THEN sf.target ELSE t.current,
                   !.last_tx_us = IF b.any_sent THEN end_us ELSE @,
                   !.next_param_index = idx2,
                   !.tx_pending = IF snap THEN TRUE ELSE pending2,
                   !.state = IF done THEN FADE_STATE_COMPLETE ELSE @],
         log |-> b.log,
         any_sent |-> b.any_sent]

(***************************************************************************)
(* History bookkeeping.                                                    *)
(***************************************************************************)
OkSends(log) == {k \in 1 .. Len(log) : log[k].err = ESP_OK}
Faults(log) == {k \in 1 .. Len(log) : log[k].err # ESP_OK}

\* last_sent after the sends of log.
RECURSIVE Deliver(_, _, _)
Deliver(ls, log, k) ==
    IF k > Len(log) THEN ls
    ELSE Deliver(IF log[k].err = ESP_OK
                 THEN [ls EXCEPT ![log[k].param] = log[k].value] ELSE ls,
                 log, k + 1)

\* A round begins at the tick that attempts the send at cursor position 0.
BeginsRound(log) == log # <<>> /\ log[1].pos = 0

\* No round yet. snapshot is current as the tick that began the last round
\* left it.
NoRounds == [begin_us |-> -1, gap_us |-> -1, ok_begin_us |-> -1,
             ok_gap_us |-> -1, snapshot |-> LightOff]

NoFade == [active |-> FALSE, immediate |-> FALSE, all_ok |-> TRUE,
           tx_count |-> 0, rounds |-> 0, only_target |-> TRUE, passed |-> 0]

\* The sends after which the cursor moved on: accepted or skipped.
Passed(log) == {k \in 1 .. Len(log) : log[k].err # ESP_ERR_INVALID_STATE}

NoCall(op, r) ==
    /\ last_op' = op
    /\ ret' = r
    /\ tx_log' = <<>>
    /\ tick_elapsed_ms' = -1
    /\ UNCHANGED <<clock, fp_contract, last_sent, rounds, twin, twin_log,
                   scene_storage, lcc_node>>

(***************************************************************************)
(* Operations.                                                             *)
(***************************************************************************)
NULL == [null |-> TRUE]

\* The bytes of a 64-bit event id, most significant first.
DefaultBase == <<5, 1, 1, 1, 34, 96, 0, 0>>
LCC_STATUS_UNINITIALIZED == "UNINITIALIZED"
LCC_STATUS_RUNNING == "RUNNING"
LCC_STATUS_ERROR == "ERROR"
\* lcc_node.cpp before lcc_node_init: s_status, s_stack (whether there is
\* one) and s_base_event_id; config is the base event id in the node's
\* configuration, store the write of s_base_event_id that is under way (the
\* value and the 32-bit words of it already stored), sent the event ids the
\* last call handed to s_stack->send_event and args what that call was given.
NoNode == [s_status |-> LCC_STATUS_UNINITIALIZED,
           s_stack |-> FALSE,
           s_base_event_id |-> DefaultBase,
           config |-> DefaultBase,
           store |-> [value |-> DefaultBase, words |-> {}],
           sent |-> <<>>,
           args |-> [parameter |-> 0, value |-> 0]]

\* No scenes.json on the card and an empty cache (s_scene_count = 0).
\* A file that is not on the card.
NoFile == [exists |-> FALSE, parses |-> TRUE, file |-> <<>>]
NoScenes ==
    [exists |-> FALSE, parses |-> TRUE, file |-> <<>>, tmp |-> NoFile,
     s_scenes |-> <<>>]

ZeroState ==
    [initialized |-> FALSE,
     current |-> LightOff,
     state |-> FADE_STATE_IDLE,
     start |-> LightOff,
     target |-> LightOff,
     duration_ms |-> 0,
     fade_start_us |-> 0,
     last_tx_us |-> 0,
     current_float |-> [i \in Params |-> IntToFloat(0)],
     next_param_index |-> 0,
     tx_pending |-> FALSE]

Init ==
    /\ s_fade = ZeroState
    /\ clock = 0
    /\ fp_contract \in BOOLEAN
    /\ last_op = "boot"
    /\ ret = ESP_OK
    /\ tx_log = <<>>
    /\ round_log = <<>>
    /\ last_sent = [i \in Params |-> -1]
    /\ tick_elapsed_ms = -1
    /\ rounds = NoRounds
    /\ fade_hist = NoFade
    /\ calls = [starts |-> 0, aborts |-> 0, faults |-> 0]
    /\ twin = ZeroState
    /\ twin_log = <<>>
    /\ scene_storage = NoScenes
    /\ lcc_node = NoNode

\* Mutant: init without the check of lines 114-117.
fade_controller_init_Reset ==
    /\ s_fade' = [ZeroState EXCEPT !.state = FADE_STATE_IDLE, !.initialized = TRUE]
    /\ NoCall("init", ESP_OK)
    /\ UNCHANGED <<round_log, fade_hist, calls>>

fade_controller_init ==
    /\ s_fade' = IF s_fade.initialized THEN s_fade
                 ELSE [ZeroState EXCEPT !.state = FADE_STATE_IDLE,
                                        !.initialized = TRUE]
    /\ NoCall("init", ESP_OK)
    /\ UNCHANGED <<round_log, fade_hist, calls>>

\* The call of fade_controller_init at boot, the only one where the
\* application makes no other.
FirstInit == ~s_fade.initialized /\ fade_controller_init

\* Mutant: the new fade starts from the old fade's target.
StartSession_FromTarget(sf, params, now_us) ==
    [sf EXCEPT
       !.start = sf.target,
       !.target = params.target,
       !.duration_ms = params.duration_ms,
       !.current_float = [i \in Params |-> IntToFloat(get_param(sf.current, i))],
       !.current = IF params.duration_ms = 0 THEN params.target ELSE @,
       !.state = FADE_STATE_FADING,
       !.tx_pending = TRUE,
       !.next_param_index = 0,
       !.fade_start_us = now_us]

\* Mutant: a start with duration 0 leaves current to the first tick.
StartSession_KeepCurrent(sf, params, now_us) ==
    [sf EXCEPT
       !.start = sf.current,
       !.target = params.target,
       !.duration_ms = params.duration_ms,
       !.current_float = [i \in Params |-> IntToFloat(get_param(sf.current, i))],
       !.state = FADE_STATE_FADING,
       !.tx_pending = TRUE,
       !.next_param_index = 0,
       !.fade_start_us = now_us]

\* Mutant: a start that leaves the round cursor where it is.
StartSession_KeepCursor(sf, params, now_us) ==
    [sf EXCEPT
       !.start = sf.current,
       !.target = params.target,
       !.duration_ms = params.duration_ms,
       !.current_float = [i \in Params |-> IntToFloat(get_param(sf.current, i))],
       !.current = IF params.duration_ms = 0 THEN params.target ELSE @,
       !.state = FADE_STATE_FADING,
       !.tx_pending = TRUE,
       !.fade_start_us = now_us]

\* Mutant: a start during a fade goes on with the round in progress.
StartSession_ResumeRound(sf, params, now_us) ==
    [sf EXCEPT
       !.start = sf.current,
       !.target = params.target,
       !.duration_ms = params.duration_ms,
       !.current_float = [i \in Params |-> IntToFloat(get_param(sf.current, i))],
       !.current = IF params.duration_ms = 0 THEN params.target ELSE @,
       !.state = FADE_STATE_FADING,
       !.tx_pending = TRUE,
       !.next_param_index = IF sf.state = FADE_STATE_FADING THEN @ ELSE 0,
       !.fade_start_us = now_us]

\* The session after a start with valid params, called at now_us.
StartSession(sf, params, now_us) ==
    [sf EXCEPT
       !.start = sf.current,
       !.target = params.target,
       !.duration_ms = params.duration_ms,
       !.current_float = [i \in Params |-> IntToFloat(get_param(sf.current, i))],
       !.current = IF params.duration_ms = 0 THEN params.target ELSE @,
       !.state = FADE_STATE_FADING,
       !.tx_pending = TRUE,
       !.next_param_index = 0,
       !.fade_start_us = now_us]

StartCall(op, params) ==
    /\ CallsLeft > 0
    /\ calls' = [calls EXCEPT !.starts = @ + 1]
    /\ IF ~s_fade.initialized
       THEN /\ NoCall(op, ESP_ERR_INVALID_STATE)
            /\ UNCHANGED <<s_fade, round_log, fade_hist>>
       ELSE IF params = NULL
       THEN /\ NoCall(op, ESP_ERR_INVALID_ARG)
            /\ UNCHANGED <<s_fade, round_log, fade_hist>>
       ELSE /\ s_fade' = StartSession(s_fade, params, clock)
            /\ NoCall(op, ESP_OK)
            /\ round_log' = <<>>
            /\ fade_hist' = [NoFade EXCEPT !.active = TRUE,
                                           !.immediate = (params.duration_ms = 0)]

fade_controller_start(params) == StartCall("start", params)

\* Mutant: apply_immediate that takes an absent state for all channels 0.
fade_controller_apply_immediate_NullAsOff(st) ==
    StartCall("apply_immediate",
              [target |-> IF st = NULL THEN LightOff ELSE st,
               duration_ms |-> 0])

fade_controller_apply_immediate(st) ==
    IF st = NULL
    THEN /\ CallsLeft > 0
         /\ calls' = [calls EXCEPT !.starts = @ + 1]
         /\ NoCall("apply_immediate", ESP_ERR_INVALID_ARG)
         /\ UNCHANGED <<s_fade, round_log, fade_hist>>
    ELSE StartCall("apply_immediate", [target |-> st, duration_ms |-> 0])

\* Mutant: an abort that takes current to the target.
fade_controller_abort_ToTarget ==
    /\ CallsLeft > 0
    /\ calls' = [calls EXCEPT !.aborts = @ + 1]
    /\ NoCall("abort", "void")
    /\ IF ~s_fade.initialized
       THEN UNCHANGED <<s_fade, round_log, fade_hist>>
       ELSE /\ s_fade' = [s_fade EXCEPT !.state = FADE_STATE_IDLE,
                                        !.tx_pending = FALSE,
                                        !.current = s_fade.target]
            /\ fade_hist' = [fade_hist EXCEPT !.active = FALSE]
            /\ UNCHANGED round_log

fade_controller_abort ==
    /\ CallsLeft > 0
    /\ calls' = [calls EXCEPT !.aborts = @ + 1]
    /\ NoCall("abort", "void")
    /\ IF ~s_fade.initialized
       THEN UNCHANGED <<s_fade, round_log, fade_hist>>
       ELSE /\ s_fade' = [s_fade EXCEPT !.state = FADE_STATE_IDLE,
                                        !.tx_pending = FALSE]
            /\ fade_hist' = [fade_hist EXCEPT !.active = FALSE]
            /\ UNCHANGED round_log

\* What the sink may return to the sends of a burst from cursor k on when it
\* may still fail `budget` of them, as the sequence of the results: a send the
\* burst does not reach (after the one that breaks it) is not asked for.
RECURSIVE SinkRuns(_, _)
SinkRuns(k, budget) ==
    IF k >= LIGHT_PARAM_COUNT THEN {<<>>}
    ELSE {<<ESP_OK>> \o run : run \in SinkRuns(k + 1, budget)}
         \cup (IF budget <= 0 \/ k \notin FaultPositions THEN {}
               ELSE {<<ESP_FAIL>> \o run : run \in SinkRuns(k + 1, budget - 1)}
                    \cup {<<ESP_ERR_INVALID_STATE>>})

\* The same as res, with res[k] the result of the send at cursor k.
SinkChoices(idx, budget) ==
    {[k \in Params |-> IF k >= idx /\ k - idx < Len(run)
                       THEN run[k - idx + 1] ELSE ESP_OK] :
        run \in SinkRuns(idx, budget)}

\* Mutant: a tick that leaves COMPLETE as it is.
TickNotFading_StaysComplete(now_us) ==
    /\ clock' = now_us
    /\ ret' = IF s_fade.initialized THEN ESP_OK ELSE ESP_ERR_NOT_FOUND
    /\ s_fade' = s_fade
    /\ tx_log' = <<>>
    /\ tick_elapsed_ms' = -1
    /\ fade_hist' = [fade_hist EXCEPT !.active = FALSE]
    /\ UNCHANGED <<round_log, last_sent, rounds, calls>>

\* A tick that finds the controller not initialized, IDLE or COMPLETE
\* (lines 200-212), called at now_us.
TickNotFading(now_us) ==
    /\ clock' = now_us
    /\ ret' = IF s_fade.initialized THEN ESP_OK ELSE ESP_ERR_NOT_FOUND
    /\ s_fade' = IF s_fade.initialized /\ s_fade.state = FADE_STATE_COMPLETE
                 THEN [s_fade EXCEPT !.state = FADE_STATE_IDLE]
                 ELSE s_fade
    /\ tx_log' = <<>>
    /\ tick_elapsed_ms' = -1
    /\ fade_hist' = [fade_hist EXCEPT !.active = FALSE]
    /\ UNCHANGED <<round_log, last_sent, rounds, calls>>

\* A tick in FADING called at now_us: t is its interpolation, res what the sink
\* returns, bd the time the burst takes.
TickInFading(now_us, t, res, bd) ==
    LET r == TickFading(s_fade, t, now_us + bd, res)
    IN  /\ now_us + bd <= MaxClock
        /\ r.any_sent \/ bd = 0
        /\ calls' = [calls EXCEPT !.faults = @ + Cardinality(Faults(r.log))]
        /\ clock' = now_us + bd
        /\ ret' = ESP_OK
        /\ s_fade' = r.sf
        /\ tx_log' = r.log
        /\ tick_elapsed_ms' = t.elapsed_ms
        /\ round_log' = IF BeginsRound(r.log) THEN r.log
                        ELSE round_log \o r.log
        /\ last_sent' = Deliver(last_sent, r.log, 1)
        /\ rounds' =
             IF ~BeginsRound(r.log) THEN rounds
             ELSE [begin_us |-> now_us,
                   gap_us |-> IF rounds.begin_us = -1 THEN -1
                              ELSE now_us - rounds.begin_us,
                   ok_begin_us |-> IF r.any_sent THEN now_us
                                   ELSE rounds.ok_begin_us,
                   ok_gap_us |-> IF r.any_sent /\ rounds.ok_begin_us # -1
                                 THEN now_us - rounds.ok_begin_us
                                 ELSE rounds.ok_gap_us,
                   snapshot |-> r.sf.current]
        /\ fade_hist' =
             [fade_hist EXCEPT
                !.all_ok = @ /\ Faults(r.log) = {},
                !.tx_count = @ + Cardinality(OkSends(r.log)),
                !.rounds = @ + (IF BeginsRound(r.log) THEN 1 ELSE 0),
                !.passed = @ + Cardinality(Passed(r.log)),
                !.only_target = @ /\ \A k \in OkSends(r.log) :
                     r.log[k].value = get_param(s_fade.target, r.log[k].param)]

\* fade_controller_tick called dt after the previous call.
fade_controller_tick(dt) ==
    LET now_us == clock + dt
    IN  /\ now_us <= MaxClock
        /\ last_op' = "tick"
        /\ UNCHANGED <<fp_contract, twin, twin_log, scene_storage, lcc_node>>
        /\ IF ~(s_fade.initialized /\ s_fade.state = FADE_STATE_FADING)
           THEN TickNotFading(now_us)
           ELSE LET t == TickInterp(s_fade, now_us, fp_contract)
                IN  \E res \in (IF t.transmit
                                THEN SinkChoices(s_fade.next_param_index,
                                                 CallsLeft)
                                ELSE {AllOk}),
                       bd \in BurstDelays :
                        TickInFading(now_us, t, res, bd)

Start == \E params \in FadeRequests : fade_controller_start(params)
ApplyImmediate ==
    \E st \in ImmediateRequests : fade_controller_apply_immediate(st)
Abort == fade_controller_abort
Tick == \E dt \in TickSteps : fade_controller_tick(dt)

Next ==
    \/ FirstInit
    \/ Start
    \/ ApplyImmediate
    \/ Abort
    \/ Tick

Spec == Init /\ [][Next]_vars

\* The calls of Next with fade_controller_init called at any time.
InitNext ==
    \/ fade_controller_init
    \/ Start
    \/ ApplyImmediate
    \/ Abort
    \/ Tick

InitSpec == Init /\ [][InitNext]_vars

(***************************************************************************)
(* The interpolation by itself: fades of given start, target and duration, *)
(* ticked at many elapsed times.                                           *)
(***************************************************************************)
MaxInterpClock == 1250000
InterpSteps == {5000, 7000, 500000}
LightB == Light(255, 200, 1, 31, 128)
InterpStarts == {LightOff, LightB}
InterpTargets == {LightA, Light(0, 255, 128, 2, 77)}
InterpDurations == {12, 20, 1000}

\* Mutant: set_current that updates the float values only.
SetCurrentState_OnlyFloat(sf, st) ==
    [sf EXCEPT !.current_float = [i \in Params |-> IntToFloat(get_param(st, i))]]

\* The assignments of fade_controller_set_current to an initialized state.
SetCurrentState(sf, st) ==
    [sf EXCEPT !.current = st,
               !.current_float = [i \in Params |-> IntToFloat(get_param(st, i))]]

\* After init, set_current(s0) and start(params) at time 0.
InterpInit ==
    /\ \E s0 \in InterpStarts, tg \in InterpTargets, d \in InterpDurations :
          s_fade = StartSession(
                      SetCurrentState([ZeroState EXCEPT !.state = FADE_STATE_IDLE,
                                                        !.initialized = TRUE], s0),
                      [target |-> tg, duration_ms |-> d], 0)
    /\ clock = 0
    /\ fp_contract \in BOOLEAN
    /\ last_op = "start"
    /\ ret = ESP_OK
    /\ tx_log = <<>>
    /\ round_log = <<>>
    /\ last_sent = [i \in Params |-> -1]
    /\ tick_elapsed_ms = -1
    /\ rounds = NoRounds
    /\ fade_hist = [NoFade EXCEPT !.active = TRUE]
    /\ calls = [starts |-> 1, aborts |-> 0, faults |-> 0]
    /\ twin = ZeroState
    /\ twin_log = <<>>
    /\ scene_storage = NoScenes
    /\ lcc_node = NoNode

\* The interpolation of a tick in FADING called dt after the previous one.
InterpTick(dt) ==
    LET now_us == clock + dt
        t == TickInterp(s_fade, now_us, fp_contract)
    IN  /\ now_us <= MaxInterpClock
        /\ s_fade.state = FADE_STATE_FADING
        /\ s_fade' = [s_fade EXCEPT !.current_float = t.new_float,
                                    !.current = t.current]
        /\ clock' = now_us
        /\ last_op' = "tick"
        /\ tick_elapsed_ms' = t.elapsed_ms
        /\ UNCHANGED <<fp_contract, ret, tx_log, round_log, last_sent, rounds,
                       fade_hist, calls, twin, twin_log, scene_storage, lcc_node>>

InterpNext == \E dt \in InterpSteps : InterpTick(dt)

InterpSpec == InterpInit /\ [][InterpNext]_vars

(***************************************************************************)
(* Two runs side by side: s_fade with a sink that may refuse sends, twin   *)
(* with a sink that accepts every one; both get the same calls at the same *)
(* times.                                                                  *)
(***************************************************************************)
\* s_fade after fade_controller_init.
InitState(sf) ==
    IF sf.initialized THEN sf
    ELSE [ZeroState EXCEPT !.state = FADE_STATE_IDLE, !.initialized = TRUE]

\* s_fade after fade_controller_abort.
AbortState(sf) ==
    IF ~sf.initialized THEN sf
    ELSE [sf EXCEPT !.state = FADE_STATE_IDLE, !.tx_pending = FALSE]

\* s_fade after fade_controller_start(params), called at now_us.
StartState(sf, params, now_us) ==
    IF ~sf.initialized \/ params = NULL THEN sf
    ELSE StartSession(sf, params, now_us)

\* s_fade after fade_controller_tick called at now_us, with res[k] what the
\* sink returns for the send at cursor k and end_us the clock after the burst.
TickState(sf, now_us, end_us, res, contract) ==
    IF ~sf.initialized THEN sf
    ELSE IF sf.state = FADE_STATE_IDLE THEN sf
    ELSE IF sf.state = FADE_STATE_COMPLETE
    THEN [sf EXCEPT !.state = FADE_STATE_IDLE]
    ELSE TickFading(sf, TickInterp(sf, now_us, contract), end_us, res).sf

TwinQuiet(op) ==
    /\ last_op' = op
    /\ ret' = ESP_OK
    /\ tx_log' = <<>>
    /\ tick_elapsed_ms' = -1
    /\ UNCHANGED <<clock, fp_contract, round_log, last_sent, rounds, fade_hist,
                   twin_log, scene_storage, lcc_node>>

TwinInitCall ==
    /\ ~s_fade.initialized
    /\ s_fade' = InitState(s_fade)
    /\ twin' = InitState(twin)
    /\ TwinQuiet("init")
    /\ UNCHANGED calls

TwinStart ==
    \E params \in FadeRequests
                    \cup {[target |-> st, duration_ms |-> 0] : st \in ImmediateRequests} :
        /\ CallsLeft > 0
        /\ calls' = [calls EXCEPT !.starts = @ + 1]
        /\ s_fade' = StartState(s_fade, params, clock)
        /\ twin' = StartState(twin, params, clock)
        /\ TwinQuiet("start")

TwinAbort ==
    /\ CallsLeft > 0
    /\ calls' = [calls EXCEPT !.aborts = @ + 1]
    /\ s_fade' = AbortState(s_fade)
    /\ twin' = AbortState(twin)
    /\ TwinQuiet("abort")

TwinTick ==
    \E dt \in TickSteps :
        LET now_us == clock + dt
            fading == s_fade.initialized /\ s_fade.state = FADE_STATE_FADING
            t == TickInterp(s_fade, now_us, fp_contract)
            tw == TickState(twin, now_us, now_us, AllOk, fp_contract)
        IN  /\ now_us <= MaxClock
            /\ last_op' = "tick"
            /\ ret' = ESP_OK
            /\ twin' = tw
            /\ UNCHANGED <<fp_contract, round_log, last_sent, rounds, fade_hist,
                           twin_log, scene_storage, lcc_node>>
            /\ IF ~fading
               THEN /\ s_fade' = TickState(s_fade, now_us, now_us, AllOk,
                                           fp_contract)
                    /\ clock' = now_us
                    /\ tx_log' = <<>>
                    /\ tick_elapsed_ms' = -1
                    /\ UNCHANGED calls
               ELSE \E res \in (IF t.transmit
                                THEN SinkChoices(s_fade.next_param_index,
                                                 CallsLeft)
                                ELSE {AllOk}),
                       bd \in BurstDelays :
                        LET r == TickFading(s_fade, t, now_us + bd, res)
                        IN  /\ now_us + bd <= MaxClock
                            /\ r.any_sent \/ bd = 0
                            /\ s_fade' = r.sf
                            /\ clock' = now_us + bd
                            /\ tx_log' = r.log
                            /\ tick_elapsed_ms' = t.elapsed_ms
                            /\ calls' = [calls EXCEPT
                                   !.faults = @ + Cardinality(Faults(r.log))]

TwinNext == TwinInitCall \/ TwinStart \/ TwinAbort \/ TwinTick

TwinSpec == Init /\ [][TwinNext]_vars

(***************************************************************************)
(* Two sessions with different pasts that are given one and the same start *)
(* and from then on the same tick times and the same sink results.         *)
(***************************************************************************)
Carrying == last_op \in {"carry_start", "carry_tick"}

\* fade_controller_tick with t its interpolation: the session after it, the
\* sends it attempted and whether one was accepted.
TickOutcome(sf, t, end_us, res) ==
    IF sf.initialized /\ sf.state = FADE_STATE_FADING
    THEN TickFading(sf, t, end_us, res)
    ELSE [sf |-> IF sf.initialized /\ sf.state = FADE_STATE_COMPLETE
                 THEN [sf EXCEPT !.state = FADE_STATE_IDLE]
                 ELSE sf,
          log |-> <<>>, any_sent |-> FALSE]

\* The tick with interpolation t runs the burst.
Sends(sf, t) ==
    sf.initialized /\ sf.state = FADE_STATE_FADING /\ t.transmit

\* The start both sessions are given, after pasts that differ in what the
\* sink returned.
CarryStart ==
    \E params \in FadeRequests
                    \cup {[target |-> st, duration_ms |-> 0] : st \in ImmediateRequests} :
        /\ ~Carrying
        /\ s_fade.initialized
        /\ CallsLeft > 0
        /\ calls' = [calls EXCEPT !.starts = @ + 1]
        /\ s_fade' = StartState(s_fade, params, clock)
        /\ twin' = StartState(twin, params, clock)
        /\ TwinQuiet("carry_start")

\* A tick of both after that start: the same time, the same sink results and
\* the same time taken by a burst.
CarryTick ==
    \E dt \in TickSteps :
        LET now_us == clock + dt
            t  == TickInterp(s_fade, now_us, fp_contract)
            t2 == IF twin = s_fade THEN t
                  ELSE TickInterp(twin, now_us, fp_contract)
        IN  /\ Carrying
            /\ now_us <= MaxClock
            /\ \E res \in (IF Sends(s_fade, t) \/ Sends(twin, t2)
                            THEN SinkChoices(s_fade.next_param_index, CallsLeft)
                            ELSE {AllOk}),
                  bd \in BurstDelays :
                   LET r  == TickOutcome(s_fade, t, now_us + bd, res)
                       tw == TickOutcome(twin, t2, now_us + bd, res)
                   IN  /\ now_us + bd <= MaxClock
                       /\ r.any_sent \/ tw.any_sent \/ bd = 0
                       /\ s_fade' = r.sf
                       /\ twin' = tw.sf
                       /\ tx_log' = r.log
                       /\ twin_log' = tw.log
                       /\ clock' = now_us + bd
                       /\ calls' = [calls EXCEPT
                              !.faults = @ + Cardinality(Faults(r.log)
                                                 \cup Faults(tw.log))]
            /\ last_op' = "carry_tick"
            /\ ret' = ESP_OK
            /\ tick_elapsed_ms' = -1
            /\ UNCHANGED <<fp_contract, round_log, last_sent, rounds, fade_hist,
                           scene_storage, lcc_node>>

CarryNext == (~Carrying /\ TwinNext) \/ CarryStart \/ CarryTick

CarrySpec == Init /\ [][CarryNext]_vars

(***************************************************************************)
(* Ticks that keep occurring.                                              *)
(***************************************************************************)
\* A step that is a call of fade_controller_tick: of the steps of Next just
\* those of Tick, and enabled when Tick is, that is while a tick at the
\* shortest distance is within MaxClock.
TickCalled ==
    /\ last_op' = "tick"
    /\ \E dt \in TickSteps, bd \in BurstDelays :
          /\ clock + dt + bd <= MaxClock
          /\ clock' = clock + dt + bd

LiveSpec == Init /\ [][Next]_vars /\ WF_clock(TickCalled)

(***************************************************************************)
(* The accessors get_progress, is_active, get_current and set_current, and *)
(* calls with a NULL argument, among the calls of Next.                    *)
(***************************************************************************)
\* The time a query is made after the call before it.
QueryDelays == {0, 5000}
\* What set_current is given.
SetRequests == {LightB}

\* 32-bit unsigned arithmetic of line 336, (uint8_t)((elapsed_ms * 100) /
\* total_ms).  A product is kept as two 16-bit halves, hi * 2^16 + lo.
Half == 65536

\* x * k modulo 2^32, for 0 <= x < 2^31 and a small k.
MulU32(x, k) ==
    LET l == (x % Half) * k
        h == ((x \div Half) * k + (l \div Half)) % Half
    IN  [hi |-> h, lo |-> l % Half]

\* The low 8 bits of p / d, for a product p and 0 < d <= 2^30.
DivU32ToByte(p, d) ==
    LET half == p.hi * (Half \div 2) + (p.lo \div 2)
        r    == 2 * (half % d) + (p.lo % 2)
    IN  (2 * ((half \div d) % 128) + (IF r >= d THEN 1 ELSE 0)) % 256

PercentOf(elapsed_ms, total_ms) ==
    DivU32ToByte(MulU32(elapsed_ms, 100), total_ms)

\* Mutant: the elapsed time is not clamped to the duration.
GetProgress_NoClamp(sf, now_us) ==
    IF ~sf.initialized
    THEN [state |-> FADE_STATE_IDLE, current |-> LightOff,
          elapsed_ms |-> 0, total_ms |-> 0, progress_percent |-> 0]
    ELSE LET total_ms == sf.duration_ms
             elapsed_ms ==
                 IF sf.state = FADE_STATE_FADING
                 THEN (now_us - sf.fade_start_us) \div 1000
                 ELSE IF sf.state = FADE_STATE_COMPLETE THEN total_ms
                 ELSE 0
         IN  [state |-> sf.state, current |-> sf.current,
              elapsed_ms |-> elapsed_ms, total_ms |-> total_ms,
              progress_percent |->
                 IF sf.state = FADE_STATE_FADING
                 THEN IF total_ms > 0
                      THEN PercentOf(elapsed_ms, total_ms)
                      ELSE 100
                 ELSE IF sf.state = FADE_STATE_COMPLETE THEN 100
                 ELSE 0]

\* Mutant: the percent outside FADING is what it is in FADING.
GetProgress_OneFormula(sf, now_us) ==
    IF ~sf.initialized
    THEN [state |-> FADE_STATE_IDLE, current |-> LightOff,
          elapsed_ms |-> 0, total_ms |-> 0, progress_percent |-> 0]
    ELSE LET total_ms == sf.duration_ms
             raw_ms == (now_us - sf.fade_start_us) \div 1000
             elapsed_ms ==
                 IF sf.state = FADE_STATE_FADING
                 THEN IF raw_ms > total_ms THEN total_ms ELSE raw_ms
                 ELSE IF sf.state = FADE_STATE_COMPLETE THEN total_ms
                 ELSE 0
         IN  [state |-> sf.state, current |-> sf.current,
              elapsed_ms |-> elapsed_ms, total_ms |-> total_ms,
              progress_percent |->
                 IF total_ms > 0
                 THEN PercentOf(elapsed_ms, total_ms)
                 ELSE 100]

\* What fade_controller_get_progress writes to *progress (lines 316-347) when
\* (uint32_t)(elapsed_us / 1000) is raw_ms: all zero before init, which is
\* state IDLE and all channels 0.
GetProgressAt(sf, raw_ms) ==
    IF ~sf.initialized
    THEN [state |-> FADE_STATE_IDLE, current |-> LightOff,
          elapsed_ms |-> 0, total_ms |-> 0, progress_percent |-> 0]
    ELSE LET total_ms == sf.duration_ms
             elapsed_ms ==
                 IF sf.state = FADE_STATE_FADING
                 THEN IF raw_ms > total_ms THEN total_ms ELSE raw_ms
                 ELSE IF sf.state = FADE_STATE_COMPLETE THEN total_ms
                 ELSE 0
         IN  [state |-> sf.state, current |-> sf.current,
              elapsed_ms |-> elapsed_ms, total_ms |-> total_ms,
              progress_percent |->
                 IF sf.state = FADE_STATE_FADING
                 THEN IF total_ms > 0
                      THEN PercentOf(elapsed_ms, total_ms)
                      ELSE 100
                 ELSE IF sf.state = FADE_STATE_COMPLETE THEN 100
                 ELSE 0]

\* fade_controller_get_progress called at now_us.
GetProgress(sf, now_us) ==
    GetProgressAt(sf, (now_us - sf.fade_start_us) \div 1000)

\* A call that reads the session q after the call before it and returns r.
Query(op, q, r) ==
    /\ clock + q <= MaxClock
    /\ clock' = clock + q
    /\ last_op' = op
    /\ ret' = r
    /\ tx_log' = <<>>
    /\ tick_elapsed_ms' = -1
    /\ UNCHANGED <<s_fade, fp_contract, last_sent, rounds, twin, twin_log,
                   scene_storage, lcc_node,
                   round_log,
                   fade_hist, calls>>

\* fade_controller_get_progress(progress): ret.state is the value returned,
\* ret.progress what *progress holds after the call, NULL if progress is.
fade_controller_get_progress(q, has_out) ==
    Query("get_progress", q,
          [state |-> IF s_fade.initialized THEN s_fade.state
                     ELSE FADE_STATE_IDLE,
           progress |-> IF has_out THEN GetProgress(s_fade, clock + q)
                        ELSE NULL])

\* Mutant: is_active that is true in every state but IDLE.
fade_controller_is_active_NotIdle(q) ==
    Query("is_active", q,
          s_fade.initialized /\ s_fade.state # FADE_STATE_IDLE)

fade_controller_is_active(q) ==
    Query("is_active", q,
          s_fade.initialized /\ s_fade.state = FADE_STATE_FADING)

\* fade_controller_get_current(state): ret.state is what *state holds after
\* the call, NULL if state is or nothing was written.
fade_controller_get_current(q, has_out) ==
    Query("get_current", q,
          IF ~s_fade.initialized
          THEN [err |-> ESP_ERR_INVALID_STATE, state |-> NULL]
          ELSE IF ~has_out
          THEN [err |-> ESP_ERR_INVALID_ARG, state |-> NULL]
          ELSE [err |-> ESP_OK, state |-> s_fade.current])

\* Mutant: set_current that does not look at initialized.
fade_controller_set_current_Unchecked(st) ==
    /\ CallsLeft > 0
    /\ calls' = [calls EXCEPT !.starts = @ + 1]
    /\ IF st = NULL
       THEN /\ NoCall("set_current", [err |-> ESP_ERR_INVALID_ARG, state |-> st])
            /\ UNCHANGED s_fade
       ELSE /\ NoCall("set_current", [err |-> ESP_OK, state |-> st])
            /\ s_fade' = SetCurrentState(s_fade, st)
    /\ UNCHANGED <<round_log, fade_hist>>

\* fade_controller_set_current(state), counted with the starts as a call
\* that writes the session: ret.err is the value returned, ret.state the
\* argument.
fade_controller_set_current(st) ==
    /\ CallsLeft > 0
    /\ calls' = [calls EXCEPT !.starts = @ + 1]
    /\ IF ~s_fade.initialized
       THEN /\ NoCall("set_current", [err |-> ESP_ERR_INVALID_STATE, state |-> st])
            /\ UNCHANGED s_fade
       ELSE IF st = NULL
       THEN /\ NoCall("set_current", [err |-> ESP_ERR_INVALID_ARG, state |-> st])
            /\ UNCHANGED s_fade
       ELSE /\ NoCall("set_current", [err |-> ESP_OK, state |-> st])
            /\ s_fade' = SetCurrentState(s_fade, st)
    /\ UNCHANGED <<round_log, fade_hist>>

\* The timer has run for a while (more than MIN_TX_INTERVAL_MS) when the
\* first call is made.
BootUs == MaxStep + MinStep

ApiInit ==
    /\ s_fade = ZeroState
    /\ clock = BootUs
    /\ fp_contract \in BOOLEAN
    /\ last_op = "boot"
    /\ ret = ESP_OK
    /\ tx_log = <<>>
    /\ round_log = <<>>
    /\ last_sent = [i \in Params |-> -1]
    /\ tick_elapsed_ms = -1
    /\ rounds = NoRounds
    /\ fade_hist = NoFade
    /\ calls = [starts |-> 0, aborts |-> 0, faults |-> 0]
    /\ twin = ZeroState
    /\ twin_log = <<>>
    /\ scene_storage = NoScenes
    /\ lcc_node = NoNode

ApiStart == \E params \in FadeRequests \cup {NULL} : fade_controller_start(params)
ApiApplyImmediate ==
    \E st \in ImmediateRequests \cup {NULL} : fade_controller_apply_immediate(st)
GetProgressCall ==
    \E q \in QueryDelays, has_out \in BOOLEAN :
        fade_controller_get_progress(q, has_out)
\* is_active and get_current do not read the time: they are called right
\* after the call before them.
IsActive == fade_controller_is_active(0)
GetCurrent == \E has_out \in BOOLEAN : fade_controller_get_current(0, has_out)
SetCurrent == \E st \in SetRequests \cup {NULL} : fade_controller_set_current(st)

ApiNext ==
    \/ FirstInit
    \/ ApiStart
    \/ ApiApplyImmediate
    \/ Abort
    \/ Tick
    \/ GetProgressCall
    \/ IsActive
    \/ GetCurrent
    \/ SetCurrent

ApiSpec == ApiInit /\ [][ApiNext]_vars

(***************************************************************************)
(* get_progress during fades of many hours.  The clock counts milliseconds *)
(* here, esp_timer_get_time() / 1000: the microseconds below do not reach  *)
(* line 330.  The fade started at 0.                                       *)
(***************************************************************************)
\* The latest query (ms).
MaxElapsedMs == 120000000
\* Durations (ms) and the time between two queries (ms).
PercentDurations == {1000, 42949672, 42949673, 50000000, 100000000}
PercentSteps == {7000000, 21474836, 42949673}

PercentInit ==
    /\ \E d \in PercentDurations :
          s_fade = StartSession([ZeroState EXCEPT !.state = FADE_STATE_IDLE,
                                                  !.initialized = TRUE],
                                [target |-> LightA, duration_ms |-> d], 0)
    /\ clock = 0
    /\ fp_contract \in BOOLEAN
    /\ last_op = "start"
    /\ ret = ESP_OK
    /\ tx_log = <<>>
    /\ round_log = <<>>
    /\ last_sent = [i \in Params |-> -1]
    /\ tick_elapsed_ms = -1
    /\ rounds = NoRounds
    /\ fade_hist = [NoFade EXCEPT !.active = TRUE]
    /\ calls = [starts |-> 1, aborts |-> 0, faults |-> 0]
    /\ twin = ZeroState
    /\ twin_log = <<>>
    /\ scene_storage = NoScenes
    /\ lcc_node = NoNode

\* fade_controller_get_progress(&progress) called dt after the call before.
PercentQuery ==
    \E dt \in PercentSteps :
        /\ clock + dt <= MaxElapsedMs
        /\ clock' = clock + dt
        /\ last_op' = "get_progress"
        /\ ret' = [state |-> s_fade.state,
                   progress |-> GetProgressAt(s_fade, clock')]
        /\ UNCHANGED <<s_fade, fp_contract, tx_log, round_log, last_sent,
                       tick_elapsed_ms, rounds, fade_hist, calls, twin,
                       twin_log, scene_storage, lcc_node>>

PercentNext == PercentQuery

PercentSpec == PercentInit /\ [][PercentNext]_vars

(***************************************************************************)
(* The sink: lcc_node_send_lighting_event (lcc_node.cpp), with the calls   *)
(* that change what it reads.  s_base_event_id is a plain uint64_t written *)
(* by the configuration listener on the stack's executor thread and read   *)
(* by the sender's task with no lock: on the 32-bit target its two words   *)
(* are stored one after the other, so a send between the two stores reads  *)
(* one word of the old value and one of the new.                           *)
(***************************************************************************)
\* Base event ids a configuration may hold, and what a caller passes.
LccBases == {DefaultBase, <<9, 0, 153, 255, 0, 1, 255, 255>>}
SendParameters == 0 .. LIGHT_PARAM_COUNT
SendValues == {0, 128, 255}
Bytes == 0 .. 255

\* a | b for two bytes.
RECURSIVE ByteOr(_, _)
ByteOr(a, b) ==
    IF a = 0 THEN b
    ELSE IF b = 0 THEN a
    ELSE 2 * ByteOr(a \div 2, b \div 2)
         + (IF a % 2 = 1 \/ b % 2 = 1 THEN 1 ELSE 0)

\* Mutant: the base is not masked.
EventId_NoMask(base, parameter, value) ==
    [i \in 1 .. 8 |->
        IF i = 7 THEN ByteOr(base[i], parameter)
        ELSE IF i = 8 THEN ByteOr(base[i], value)
        ELSE base[i]]

\* (base & 0xFFFFFFFFFFFF0000) | (parameter << 8) | value (lines 476-478).
EventId(base, parameter, value) ==
    LET masked == [i \in 1 .. 8 |-> IF i <= 6 THEN base[i] ELSE 0]
    IN  [i \in 1 .. 8 |->
            IF i = 7 THEN ByteOr(masked[i], parameter)
            ELSE IF i = 8 THEN ByteOr(masked[i], value)
            ELSE masked[i]]

\* The calls of the node leave the fade controller and the scenes alone.
NodeCall(op, r) ==
    /\ last_op' = op
    /\ ret' = r
    /\ UNCHANGED <<s_fade, clock, fp_contract, tx_log, round_log, last_sent,
                   tick_elapsed_ms, rounds, fade_hist, calls, twin, twin_log,
                   scene_storage>>

\* lcc_node_init(config); config_ok: the configuration file could be opened.
lcc_node_init(config_ok) ==
    IF lcc_node.s_status # LCC_STATUS_UNINITIALIZED
    THEN /\ NodeCall("lcc_init", ESP_ERR_INVALID_STATE)
         /\ UNCHANGED lcc_node
    ELSE IF ~config_ok
    THEN /\ NodeCall("lcc_init", ESP_FAIL)
         /\ lcc_node' = [lcc_node EXCEPT !.s_status = LCC_STATUS_ERROR,
                                         !.s_stack = TRUE,
                                         !.sent = <<>>]
    ELSE /\ NodeCall("lcc_init", ESP_OK)
         /\ lcc_node' = [lcc_node EXCEPT
                           !.s_status = LCC_STATUS_RUNNING,
                           !.s_stack = TRUE,
                           !.s_base_event_id = lcc_node.config,
                           !.store = [value |-> lcc_node.config,
                                      words |-> {}],
                           !.sent = <<>>]

lcc_node_shutdown ==
    /\ NodeCall("lcc_shutdown", "void")
    /\ lcc_node' = [lcc_node EXCEPT
                      !.s_status = LCC_STATUS_UNINITIALIZED,
                      !.sent = <<>>]

\* s_base_event_id with one 32-bit word (bytes 1..4 or 5..8) of value stored.
StoreWord(base, value, word) ==
    [i \in 1 .. 8 |->
        IF (word = "hi" /\ i <= 4) \/ (word = "lo" /\ i > 4)
        THEN value[i] ELSE base[i]]

\* LccConfigListener::apply_configuration after the configuration was
\* changed to new_base_event_id: the first store of line 208.
apply_configuration(new_base_event_id, word) ==
    /\ lcc_node.s_status = LCC_STATUS_RUNNING
    /\ lcc_node.store.words = {}
    /\ new_base_event_id # lcc_node.s_base_event_id
    /\ NodeCall("apply_configuration", "void")
    /\ lcc_node' = [lcc_node EXCEPT
                      !.config = new_base_event_id,
                      !.s_base_event_id =
                          StoreWord(@, new_base_event_id, word),
                      !.store = [value |-> new_base_event_id,
                                 words |-> {word}],
                      !.sent = <<>>]

\* The second store of line 208.
StoreRest ==
    /\ lcc_node.store.words # {}
    /\ NodeCall("apply_configuration", "void")
    /\ lcc_node' = [lcc_node EXCEPT
                      !.s_base_event_id = lcc_node.store.value,
                      !.store = [value |-> lcc_node.store.value,
                                 words |-> {}],
                      !.sent = <<>>]

\* Mutant: the send does not look at the status.
lcc_node_send_lighting_event_Unchecked(parameter, value) ==
    /\ lcc_node' = [lcc_node EXCEPT
                      !.args = [parameter |-> parameter, value |-> value],
                      !.sent = IF parameter > 4 THEN <<>>
                               ELSE <<EventId(lcc_node.s_base_event_id,
                                              parameter, value)>>]
    /\ NodeCall("send_lighting_event",
                IF parameter > 4 THEN ESP_ERR_INVALID_ARG ELSE ESP_OK)

lcc_node_send_lighting_event(parameter, value) ==
    LET given == [parameter |-> parameter, value |-> value]
    IN  IF lcc_node.s_status # LCC_STATUS_RUNNING \/ ~lcc_node.s_stack
        THEN /\ NodeCall("send_lighting_event", ESP_ERR_INVALID_STATE)
             /\ lcc_node' = [lcc_node EXCEPT !.args = given, !.sent = <<>>]
        ELSE IF parameter > 4
        THEN /\ NodeCall("send_lighting_event", ESP_ERR_INVALID_ARG)
             /\ lcc_node' = [lcc_node EXCEPT !.args = given, !.sent = <<>>]
        ELSE /\ NodeCall("send_lighting_event", ESP_OK)
             /\ lcc_node' =
                   [lcc_node EXCEPT
                      !.args = given,
                      !.sent = <<EventId(lcc_node.s_base_event_id,
                                         parameter, value)>>]

LccInitCall == \E config_ok \in BOOLEAN : lcc_node_init(config_ok)
ConfigChange ==
    \E new_base_event_id \in LccBases, word \in {"hi", "lo"} :
        apply_configuration(new_base_event_id, word)
SendLightingEvent ==
    \E parameter \in SendParameters, value \in SendValues :
        lcc_node_send_lighting_event(parameter, value)

LccNext ==
    \/ LccInitCall
    \/ lcc_node_shutdown
    \/ ConfigChange
    \/ StoreRest
    \/ SendLightingEvent

LccSpec == Init /\ [][LccNext]_vars

(***************************************************************************)
(* The scene store (scene_storage.c): scenes.json on the SD card, read and *)
(* rewritten whole by every save and delete, the file scenes.tmp that load *)
(* falls back to, and the cache s_scenes.                                  *)
(* scene_storage is [exists, parses, file, tmp, s_scenes]: whether         *)
(* scenes.json exists and is well-formed JSON, the scenes in it, the same  *)
(* three of scenes.tmp, and the cache (s_scene_count is its length).       *)
(***************************************************************************)
\* SCENE_STORAGE_MAX_SCENES (32), scaled down.
MaxScenes == 2
\* sizeof(ui_scene_t.name) - 1: the characters a name field holds, scaled down.
NameCap == 2
Letters == {"a", "b"}
\* The names save and delete are given: up to one character longer than a
\* name field holds.
SceneNames ==
    UNION {[1 .. n -> Letters] : n \in 1 .. (NameCap + 1)}
SceneValues == {LightA, LightDim}
\* A name pointer that is NULL: no name is equal to it.
NullName == <<"NULL">>
\* How writing scenes.json goes: well, fopen fails, or fwrite writes less
\* than the whole text.
WriteResults == {"ok", "open_failed", "short_write"}

\* strncpy(dst, name, sizeof(dst) - 1); dst[sizeof(dst) - 1] = '\0'.
CopyName(name) ==
    IF Len(name) > NameCap THEN SubSeq(name, 1, NameCap) ELSE name

\* The first n scenes of a file, as scene_storage_load copies them.
RECURSIVE LoadedScenes(_, _)
LoadedScenes(file, n) ==
    IF file = <<>> \/ n = 0 THEN <<>>
    ELSE <<[name |-> CopyName(Head(file).name), values |-> Head(file).values]>>
         \o LoadedScenes(Tail(file), n - 1)

\* Lines 76-152 of scene_storage_load: reading and parsing the file f that
\* fopen was given, in the store st.
ReadScenes(f, st) ==
    IF ~f.exists \/ ~f.parses
    THEN [err |-> ESP_FAIL, scenes |-> <<>>, st |-> st]
    ELSE LET scenes == LoadedScenes(f.file, MaxScenes)
         IN  [err |-> ESP_OK, scenes |-> scenes,
              st |-> [st EXCEPT !.s_scenes = scenes]]

\* scene_storage_load(scenes, SCENE_STORAGE_MAX_SCENES, &count): what it
\* returns, the scenes it gives (count is their number) and the store after.
\* With no scenes.json but a scenes.tmp, file_path is set to scenes.tmp, the
\* file is renamed to scenes.json (renamed: whether rename did it; its
\* result is not looked at) and fopen is given file_path.
scene_storage_load(st, renamed) ==
    IF st.exists THEN ReadScenes(st, st)
    ELSE IF ~st.tmp.exists
    THEN [err |-> ESP_ERR_NOT_FOUND, scenes |-> <<>>, st |-> st]
    ELSE LET moved == [st EXCEPT !.exists = TRUE, !.parses = st.tmp.parses,
                                 !.file = st.tmp.file, !.tmp = NoFile]
         IN  IF renamed THEN ReadScenes(moved.tmp, moved) ELSE ReadScenes(st.tmp, st)

\* rename is called only on the fallback path.
RenameResults(st) == IF ~st.exists /\ st.tmp.exists THEN BOOLEAN ELSE {TRUE}

\* The index of the first scene whose name strcmp finds equal to name, or 0.
FindScene(scenes, name) ==
    IF \E i \in 1 .. Len(scenes) : scenes[i].name = name
    THEN CHOOSE i \in 1 .. Len(scenes) :
            /\ scenes[i].name = name
            /\ \A j \in 1 .. (i - 1) : scenes[j].name # name
    ELSE 0

\* Writing the scenes as scenes.json: the store after it.
WriteScenes(st, scenes, how) ==
    IF how = "open_failed" THEN st
    ELSE [st EXCEPT !.exists = TRUE,
                    !.parses = (how = "ok"),
                    !.file = IF how = "ok" THEN scenes ELSE <<>>]

\* The scenes save writes (lines 172-204), given those loaded.
SaveScenes(scenes, name, values) ==
    LET existing_idx == FindScene(scenes, name)
    IN  IF existing_idx > 0
        THEN [scenes EXCEPT ![existing_idx].values = values]
        ELSE Append(scenes, [name |-> CopyName(name), values |-> values])

\* The calls of the scene store leave the fade controller alone; ret is
\* [err, name, values]: what the call returned and what it was given.
SceneCall(op, r) ==
    /\ last_op' = op
    /\ ret' = r
    /\ UNCHANGED <<s_fade, clock, fp_contract, tx_log, round_log, last_sent,
                   tick_elapsed_ms, rounds, fade_hist, calls, twin, twin_log,
                   lcc_node>>

\* Mutant: save without the check of lines 191-194.
scene_storage_save_NoLimit(name, values, how, renamed) ==
    LET ld == scene_storage_load(scene_storage, renamed)
        r(err) == [err |-> err, name |-> name, values |-> values]
    IN  IF name = NullName \/ name = <<>>
        THEN /\ SceneCall("scene_save", r(ESP_ERR_INVALID_ARG))
             /\ UNCHANGED scene_storage
        ELSE LET scenes == SaveScenes(ld.scenes, name, values)
             IN  /\ SceneCall("scene_save",
                              r(IF how = "ok" THEN ESP_OK ELSE ESP_FAIL))
                 /\ scene_storage' =
                       [WriteScenes(ld.st, scenes, how) EXCEPT
                          !.s_scenes = IF how = "ok" THEN scenes ELSE @]

scene_storage_save(name, values, how, renamed) ==
    LET ld == scene_storage_load(scene_storage, renamed)
        r(err) == [err |-> err, name |-> name, values |-> values]
    IN  IF name = NullName \/ name = <<>>
        THEN /\ SceneCall("scene_save", r(ESP_ERR_INVALID_ARG))
             /\ UNCHANGED scene_storage
        ELSE IF FindScene(ld.scenes, name) = 0 /\ Len(ld.scenes) >= MaxScenes
        THEN /\ SceneCall("scene_save", r(ESP_ERR_NO_MEM))
             /\ scene_storage' = ld.st
        ELSE LET scenes == SaveScenes(ld.scenes, name, values)
             IN  /\ SceneCall("scene_save",
                              r(IF how = "ok" THEN ESP_OK ELSE ESP_FAIL))
                 /\ scene_storage' =
                       [WriteScenes(ld.st, scenes, how) EXCEPT
                          !.s_scenes = IF how = "ok" THEN scenes ELSE @]

\* The scenes left when the one at found_idx is removed (lines 288-292).
RemoveScene(scenes, found_idx) ==
    SubSeq(scenes, 1, found_idx - 1) \o SubSeq(scenes, found_idx + 1, Len(scenes))

\* scene_storage_delete(name): it does not look at what fwrite returned.
scene_storage_delete(name, how, renamed) ==
    LET ld == scene_storage_load(scene_storage, renamed)
        found_idx == FindScene(ld.scenes, name)
        r(err) == [err |-> err, name |-> name, values |-> NULL]
    IN  IF name = NullName \/ name = <<>>
        THEN /\ SceneCall("scene_delete", r(ESP_ERR_INVALID_ARG))
             /\ UNCHANGED scene_storage
        ELSE IF found_idx = 0
        THEN /\ SceneCall("scene_delete", r(ESP_ERR_NOT_FOUND))
             /\ scene_storage' = ld.st
        ELSE LET scenes == RemoveScene(ld.scenes, found_idx)
             IN  /\ SceneCall("scene_delete",
                              r(IF how = "open_failed" THEN ESP_FAIL ELSE ESP_OK))
                 /\ scene_storage' =
                       [WriteScenes(ld.st, scenes, how) EXCEPT
                          !.s_scenes = IF how = "open_failed" THEN @ ELSE scenes]

\* scene_storage_init(): loads the cache; no scenes if the load failed.
scene_storage_init(renamed) ==
    LET ld == scene_storage_load(scene_storage, renamed)
    IN  /\ SceneCall("scene_init", [err |-> ESP_OK, name |-> NullName, values |-> NULL])
        /\ scene_storage' =
              [ld.st EXCEPT
                 !.s_scenes = IF ld.err = ESP_OK THEN ld.scenes ELSE <<>>]

\* scene_storage_get_count() and scene_storage_get_first(&scene) of a store.
scene_storage_get_count(st) == Len(st.s_scenes)
scene_storage_get_first(st) ==
    IF Len(st.s_scenes) = 0
    THEN [err |-> ESP_ERR_NOT_FOUND, scene |-> NULL]
    ELSE [err |-> ESP_OK, scene |-> st.s_scenes[1]]

SceneStorageInit ==
    \E renamed \in RenameResults(scene_storage) : scene_storage_init(renamed)
\* scene_storage_load as scene_storage_reload_ui calls it (line 365).
SceneLoad ==
    \E renamed \in RenameResults(scene_storage) :
        LET ld == scene_storage_load(scene_storage, renamed)
        IN  /\ SceneCall("scene_load",
                         [err |-> ld.err, name |-> NullName, values |-> NULL])
            /\ scene_storage' = ld.st
SceneSave ==
    \E name \in SceneNames \cup {<<>>, NullName}, values \in SceneValues,
       how \in WriteResults, renamed \in RenameResults(scene_storage) :
        scene_storage_save(name, values, how, renamed)
SceneDelete ==
    \E name \in SceneNames \cup {<<>>, NullName}, how \in WriteResults,
       renamed \in RenameResults(scene_storage) :
        scene_storage_delete(name, how, renamed)

\* The cards at boot: no scenes.json, one with as many scenes as the store
\* holds, or none but a scenes.tmp of one scene; the cache is empty.
SceneCards ==
    {NoScenes,
     [NoScenes EXCEPT
        !.exists = TRUE,
        !.file = <<[name |-> <<"a">>, values |-> LightA],
                   [name |-> <<"b">>, values |-> LightDim]>>],
     [NoScenes EXCEPT
        !.tmp = [exists |-> TRUE, parses |-> TRUE,
                 file |-> <<[name |-> <<"b">>, values |-> LightA]>>]]}

SceneInit ==
    /\ s_fade = ZeroState
    /\ clock = 0
    /\ fp_contract = FALSE
    /\ last_op = "boot"
    /\ ret = ESP_OK
    /\ tx_log = <<>>
    /\ round_log = <<>>
    /\ last_sent = [i \in Params |-> -1]
    /\ tick_elapsed_ms = -1
    /\ rounds = NoRounds
    /\ fade_hist = NoFade
    /\ calls = [starts |-> 0, aborts |-> 0, faults |-> 0]
    /\ twin = ZeroState
    /\ twin_log = <<>>
    /\ scene_storage \in SceneCards
    /\ lcc_node = NoNode

SceneNext == SceneStorageInit \/ SceneLoad \/ SceneSave \/ SceneDelete

SceneSpec == SceneInit /\ [][SceneNext]_vars

(***************************************************************************)
(* Properties.                                                             *)
(***************************************************************************)
MinTxIntervalUs == MIN_TX_INTERVAL_MS * 1000

\* The last call was a tick that ran the FADING branch.
FadingTick == last_op = "tick" /\ tick_elapsed_ms # -1

SentEquals(st) == \A i \in Params : last_sent[i] = get_param(st, i)

\* The place of a channel in the order brightness, red, green, blue, white.
Rank(param) ==
    CASE param = LIGHT_PARAM_BRIGHTNESS -> 0
      [] param = LIGHT_PARAM_RED -> 1
      [] param = LIGHT_PARAM_GREEN -> 2
      [] param = LIGHT_PARAM_BLUE -> 3
      [] param = LIGHT_PARAM_WHITE -> 4

\* C1 (as claimed): with a sink that accepts every send, when the tick makes
\* the state COMPLETE the value last sent for each channel is the target's.
C1_ExactEndpointDelivery ==
    (s_fade.state = FADE_STATE_COMPLETE /\ calls.faults = 0)
        => SentEquals(s_fade.target)

C3_FixedOrder ==
    /\ round_log # <<>> => Rank(round_log[1].param) = 0
    /\ \A j \in 1 .. Len(round_log) - 1 :
          LET a == round_log[j]
              b == round_log[j + 1]
          IN  IF a.err = ESP_ERR_INVALID_STATE
              THEN Rank(b.param) = Rank(a.param)
              ELSE Rank(b.param) = Rank(a.param) + 1

\* C3 witness: a round that ran to white although one channel was skipped
\* after an error and another found the sink not ready.
C3_Witness ==
    /\ round_log # <<>>
    /\ Rank(round_log[Len(round_log)].param) = 4
    /\ round_log[Len(round_log)].err = ESP_OK
    /\ \E j \in 1 .. Len(round_log) : round_log[j].err = ESP_FAIL
    /\ \E j \in 1 .. Len(round_log) : round_log[j].err = ESP_ERR_INVALID_STATE

\* The round in progress got brightness and red accepted and stopped at green.
InterruptedAtGreen ==
    /\ s_fade.initialized
    /\ s_fade.state = FADE_STATE_FADING
    /\ s_fade.next_param_index = 2
    /\ Len(round_log) >= 3
    /\ round_log[1].err = ESP_OK
    /\ round_log[2].err = ESP_OK
    /\ round_log[Len(round_log)].err = ESP_ERR_INVALID_STATE

\* C4 (as claimed): after a round was interrupted at green, a tick at least
\* 10 ms after the round's last send that finds the sink available sends
\* green, blue and white, and not brightness or red.
C4_ResumesAtGreen ==
    [][(/\ InterruptedAtGreen
        /\ last_op' = "tick"
        /\ clock' - s_fade.last_tx_us >= MinTxIntervalUs
        /\ Faults(tx_log') = {})
       => /\ Len(tx_log') = 3
          /\ \A j \in 1 .. 3 :
                /\ Rank(tx_log'[j].param) = j + 1
                /\ tx_log'[j].value = get_param(s_fade'.current, tx_log'[j].param)]_vars

\* C5 (as claimed): after a tick in FADING that sent, or that ran at least
\* 10 ms after the last round, with a sink that accepts every send, the values
\* last sent are those of current.
C5_ChangeDeferredNotDropped ==
    (/\ FadingTick
     /\ calls.faults = 0
     /\ (tx_log # <<>> \/ clock - s_fade.last_tx_us >= MinTxIntervalUs))
        => SentEquals(s_fade.current)

\* C6: a successful start during a fade takes current as it was before the
\* call as the new start snapshot, and leaves current alone unless the new
\* duration is 0.
C6_RetargetFromCurrent ==
    [][(/\ s_fade.state = FADE_STATE_FADING
        /\ last_op' \in {"start", "apply_immediate"}
        /\ ret' = ESP_OK)
       => /\ s_fade'.start = s_fade.current
          /\ s_fade'.duration_ms > 0 => s_fade'.current = s_fade.current
          /\ s_fade'.state = FADE_STATE_FADING]_vars

\* C6 witness: a start whose start snapshot is a value interpolated by the
\* fade it replaced, neither a target nor a start anyone asked for.
C6_Witness ==
    /\ last_op = "start"
    /\ ret = ESP_OK
    /\ s_fade.duration_ms > 0
    /\ s_fade.start = s_fade.current
    /\ s_fade.start \notin {LightOff, LightDim, LightA}

\* C7: after apply_immediate(S), with every send accepted: current is S until
\* COMPLETE, nothing but S's values is sent, nothing has been sent while the
\* state is still FADING, and at COMPLETE exactly one round of five sends has
\* delivered S; the call leaves the session a start with (S, 0) leaves.
C7_ImmediateApply ==
    /\ [](fade_hist.active /\ fade_hist.immediate /\ fade_hist.all_ok
            => /\ s_fade.current = s_fade.target
               /\ s_fade.duration_ms = 0
               /\ fade_hist.only_target
               /\ s_fade.state \in {FADE_STATE_FADING, FADE_STATE_COMPLETE}
               /\ s_fade.state = FADE_STATE_FADING
                     => fade_hist.tx_count = 0 /\ fade_hist.rounds = 0
               /\ s_fade.state = FADE_STATE_COMPLETE
                     => /\ fade_hist.tx_count = LIGHT_PARAM_COUNT
                        /\ fade_hist.rounds = 1
                        /\ SentEquals(s_fade.target))
    /\ [][(last_op' = "apply_immediate" /\ ret' = ESP_OK)
            => s_fade' = [s_fade EXCEPT
                            !.start = s_fade.current,
                            !.target = s_fade'.target,
                            !.current = s_fade'.target,
                            !.duration_ms = 0,
                            !.current_float =
                                [i \in Params |->
                                    IntToFloat(get_param(s_fade.current, i))],
                            !.state = FADE_STATE_FADING,
                            !.tx_pending = TRUE,
                            !.next_param_index = 0,
                            !.fade_start_us = clock]]_vars

\* C7 witness: an immediate apply made during an earlier fade has completed.
C7_Witness ==
    /\ fade_hist.active /\ fade_hist.immediate /\ fade_hist.all_ok
    /\ s_fade.state = FADE_STATE_COMPLETE
    /\ s_fade.start \notin {LightOff, LightDim, LightA}
    /\ fade_hist.tx_count = LIGHT_PARAM_COUNT

Max(a, b) == IF a >= b THEN a ELSE b

\* The time the fade's duration runs out, taken up to the next time a tick
\* can be called at.
FadeEndUs ==
    LET end_us == s_fade.fade_start_us + s_fade.duration_ms * 1000
    IN  ((end_us + MinStep - 1) \div MinStep) * MinStep

\* No call but a tick can follow and the sink accepts every send from now on.
OnlyTicksLeft == CallsLeft = 0

\* The ticks to come, however they are spaced, include one that is called
\* after the duration has run out and at least 10 ms after the last round.
TimeToComplete ==
    Max(clock, FadeEndUs - MinStep) + MaxStep <= MaxClock

\* C8: a fade after whose start no start or abort follows and to which the
\* sink at last accepts every send becomes COMPLETE, whatever the sink
\* returned before, and a tick that finds COMPLETE makes the state IDLE.
C8_FadeCompletes ==
    /\ (s_fade.state = FADE_STATE_FADING /\ OnlyTicksLeft /\ TimeToComplete)
          ~> (s_fade.state = FADE_STATE_COMPLETE)
    /\ (s_fade.state = FADE_STATE_COMPLETE /\ OnlyTicksLeft
          /\ clock + MinStep <= MaxClock)
          ~> (s_fade.state = FADE_STATE_IDLE /\ last_op = "tick")
    /\ [][(s_fade.state = FADE_STATE_COMPLETE /\ last_op' = "tick")
            => s_fade'.state = FADE_STATE_IDLE]_vars

\* C8 witness: a fade of a duration above 0 in which the sink refused two
\* sends has completed and the next tick has made the state IDLE.
C8_Witness ==
    /\ s_fade.state = FADE_STATE_IDLE
    /\ last_op = "tick"
    /\ s_fade.duration_ms > 0
    /\ s_fade.current = s_fade.target
    /\ ~fade_hist.all_ok
    /\ calls.faults = 2
    /\ fade_hist.tx_count >= LIGHT_PARAM_COUNT
    /\ OnlyTicksLeft

\* start + (target - start) * min(t, d) / d as the fraction num/d, for the
\* fade and the elapsed time of the last tick.
ExactNum(i) ==
    LET st == get_param(s_fade.start, i)
        tg == get_param(s_fade.target, i)
        tm == IF tick_elapsed_ms < s_fade.duration_ms
              THEN tick_elapsed_ms ELSE s_fade.duration_ms
    IN  st * s_fade.duration_ms + (tg - st) * tm

\* num/d (not negative) rounded to the nearest integer, ties away from zero.
RoundHalfAway(num, d) == (2 * num + d) \div (2 * d)

Abs(x) == IF x < 0 THEN -x ELSE x

C12_AbortFreezes ==
    [][/\ (last_op' = "abort" /\ s_fade.initialized)
          => /\ s_fade'.state = FADE_STATE_IDLE
             /\ s_fade'.current = s_fade.current
             /\ ~s_fade'.tx_pending
             /\ tx_log' = <<>>
             /\ last_sent' = last_sent
       /\ (s_fade.initialized /\ s_fade.state = FADE_STATE_IDLE
             /\ last_op' \notin {"start", "apply_immediate"})
          => /\ s_fade'.state = FADE_STATE_IDLE
             /\ s_fade'.current = s_fade.current
             /\ tx_log' = <<>>
             /\ last_sent' = last_sent]_vars

\* C12 witness: a tick after the abort of a fade that was part-way through a
\* round and between its start and its target, and whose current the sink
\* has not all got.
C12_Witness ==
    /\ last_op = "tick"
    /\ s_fade.state = FADE_STATE_IDLE
    /\ s_fade.next_param_index # 0
    /\ s_fade.current # s_fade.start
    /\ s_fade.current # s_fade.target
    /\ ~SentEquals(s_fade.current)

\* C13: a tick in IDLE leaves the session as it is and sends nothing; a tick
\* in COMPLETE changes the state to IDLE and nothing else and sends nothing;
\* no step leaves the state COMPLETE.
C13_TickOutsideFade ==
    [][/\ (last_op' = "tick" /\ s_fade.initialized
             /\ s_fade.state = FADE_STATE_IDLE)
          => /\ s_fade' = s_fade
             /\ tx_log' = <<>>
             /\ last_sent' = last_sent
             /\ ret' = ESP_OK
       /\ (last_op' = "tick" /\ s_fade.state = FADE_STATE_COMPLETE)
          => /\ s_fade' = [s_fade EXCEPT !.state = FADE_STATE_IDLE]
             /\ tx_log' = <<>>
             /\ last_sent' = last_sent
             /\ ret' = ESP_OK
       /\ s_fade.state = FADE_STATE_COMPLETE
          => s_fade'.state # FADE_STATE_COMPLETE]_vars

\* C13 witness: a tick has taken a completed fade, never aborted, to IDLE.
C13_Witness ==
    /\ last_op = "tick"
    /\ s_fade.state = FADE_STATE_IDLE
    /\ calls.aborts = 0
    /\ s_fade.duration_ms > 0
    /\ s_fade.current = s_fade.target
    /\ s_fade.target # LightOff
    /\ SentEquals(s_fade.target)

\* C14: a successful start leaves the state FADING, the cursor at 0 and the
\* pending flag set; the first burst after it begins with brightness and, if
\* the sink accepts every send, goes through all five channels.
C14_FreshCursor ==
    [][/\ (last_op' \in {"start", "apply_immediate"} /\ ret' = ESP_OK)
          => /\ s_fade'.state = FADE_STATE_FADING
             /\ s_fade'.next_param_index = 0
             /\ s_fade'.tx_pending
             /\ tx_log' = <<>>
       /\ (last_op' = "tick" /\ round_log = <<>> /\ tx_log' # <<>>)
          => /\ tx_log'[1].param = LIGHT_PARAM_BRIGHTNESS
             /\ tx_log'[1].value = s_fade'.current.brightness
             /\ Faults(tx_log') = {}
                   => /\ Len(tx_log') = LIGHT_PARAM_COUNT
                      /\ \A j \in 1 .. Len(tx_log') :
                            Rank(tx_log'[j].param) = j - 1]_vars

\* C14 witness: the first round of a fade started from a value in the middle
\* of an earlier fade, in which the sink had refused a send, has sent all
\* five channels.
C14_Witness ==
    /\ last_op = "tick"
    /\ Len(tx_log) = LIGHT_PARAM_COUNT
    /\ tx_log[1].param = LIGHT_PARAM_BRIGHTNESS
    /\ fade_hist.all_ok
    /\ fade_hist.rounds = 1
    /\ calls.faults > 0
    /\ s_fade.start \notin {LightOff, LightDim, LightA}

\* C15: the state is COMPLETE only if since the start the cursor has passed
\* all five positions, each channel sent or skipped, in whole rounds; on
\* return from a successful start the state is FADING, with current the
\* target if the duration is 0.
C15_CompleteOnlyAfterRound ==
    /\ s_fade.state = FADE_STATE_COMPLETE
          => /\ fade_hist.passed >= LIGHT_PARAM_COUNT
             /\ fade_hist.passed % LIGHT_PARAM_COUNT = 0
             /\ fade_hist.rounds >= 1
    /\ (last_op \in {"start", "apply_immediate"} /\ ret = ESP_OK)
          => /\ s_fade.state = FADE_STATE_FADING
             /\ fade_hist.passed = 0
             /\ s_fade.duration_ms = 0 => s_fade.current = s_fade.target

\* C15 witness: a fade of duration 0 has completed after a round in which one
\* channel was skipped and another found the sink not ready.
C15_Witness ==
    /\ s_fade.state = FADE_STATE_COMPLETE
    /\ s_fade.duration_ms = 0
    /\ fade_hist.passed = LIGHT_PARAM_COUNT
    /\ \E j \in 1 .. Len(round_log) : round_log[j].err = ESP_FAIL
    /\ \E j \in 1 .. Len(round_log) : round_log[j].err = ESP_ERR_INVALID_STATE

\* C16: after init, start with NULL params and apply_immediate with a NULL
\* state return ESP_ERR_INVALID_ARG, send nothing and leave the whole
\* session as it is; so does every start or apply_immediate of the
\* initialized controller that returns ESP_ERR_INVALID_ARG.
C16_NullArgsRejected ==
    [][/\ (/\ s_fade.initialized
           /\ \/ fade_controller_start(NULL)
              \/ fade_controller_apply_immediate(NULL))
          => /\ ret' = ESP_ERR_INVALID_ARG
             /\ s_fade' = s_fade
             /\ fade_hist' = fade_hist
             /\ tx_log' = <<>>
             /\ last_sent' = last_sent
       /\ (/\ s_fade.initialized
           /\ last_op' \in {"start", "apply_immediate"}
           /\ ret' # ESP_OK)
          => /\ ret' = ESP_ERR_INVALID_ARG
             /\ s_fade' = s_fade
             /\ tx_log' = <<>>]_vars

\* C16 witness: a call with a NULL argument was refused during a fade that is
\* between its start and its target with a round interrupted part-way.
C16_Witness ==
    /\ last_op \in {"start", "apply_immediate"}
    /\ ret = ESP_ERR_INVALID_ARG
    /\ s_fade.state = FADE_STATE_FADING
    /\ s_fade.next_param_index # 0
    /\ s_fade.current # s_fade.start
    /\ s_fade.current # s_fade.target

\* C17: before init no call but init changes the session or sends anything;
\* start, apply_immediate, tick, get_current and set_current return an
\* error, is_active returns false and get_progress returns IDLE and writes
\* a zeroed record.
C17_BeforeInit ==
    [][(~s_fade.initialized /\ last_op' # "init")
          => /\ s_fade' = s_fade
             /\ tx_log' = <<>>
             /\ last_sent' = last_sent
             /\ last_op' \in {"start", "apply_immediate", "tick"}
                   => ret' \in {ESP_ERR_INVALID_STATE, ESP_ERR_INVALID_ARG,
                                ESP_ERR_NOT_FOUND}
             /\ last_op' \in {"get_current", "set_current"}
                   => ret'.err \in {ESP_ERR_INVALID_STATE, ESP_ERR_INVALID_ARG}
             /\ last_op' = "get_current" => ret'.state = NULL
             /\ last_op' = "is_active" => ret' = FALSE
             /\ last_op' = "get_progress"
                   => /\ ret'.state = FADE_STATE_IDLE
                      /\ ret'.progress \in
                            {NULL,
                             [state |-> FADE_STATE_IDLE, current |-> LightOff,
                              elapsed_ms |-> 0, total_ms |-> 0,
                              progress_percent |-> 0]}]_vars

\* C17 witness: a tick of the controller never initialized, after a start, a
\* set_current and an abort.
C17_Witness ==
    /\ ~s_fade.initialized
    /\ last_op = "tick"
    /\ ret = ESP_ERR_NOT_FOUND
    /\ calls.starts = 2
    /\ calls.aborts = 1
    /\ clock > BootUs

\* What the formula percent = complete ? 100 : (totalMs > 0 ?
\* elapsedMs*100/totalMs : 100) gives for the record p.
FormulaPercent(p) ==
    IF p.state = FADE_STATE_COMPLETE THEN 100
    ELSE IF p.total_ms > 0 THEN (p.elapsed_ms * 100) \div p.total_ms
    ELSE 100

\* C18 as stated: the percent get_progress writes is 100 in COMPLETE and
\* otherwise elapsedMs*100/totalMs if totalMs > 0 and 100 if totalMs = 0.
C18_PercentFormula ==
    (last_op = "get_progress" /\ ret.progress # NULL /\ s_fade.initialized)
       => ret.progress.progress_percent = FormulaPercent(ret.progress)

\* C18 amended: the percent is 100 in COMPLETE; in FADING it is
\* elapsedMs*100/totalMs if totalMs > 0 and 100 if totalMs = 0; in IDLE it
\* is 0 and so is elapsedMs, whatever totalMs is.
C18_PercentByState ==
    (last_op = "get_progress" /\ ret.progress # NULL)
       => LET p == ret.progress
          IN  /\ p.state = s_fade.state
              /\ p.total_ms = s_fade.duration_ms
              /\ p.state = FADE_STATE_COMPLETE => p.progress_percent = 100
              /\ p.state = FADE_STATE_FADING
                    => p.progress_percent = FormulaPercent(p)
              /\ p.state = FADE_STATE_IDLE
                    => p.progress_percent = 0 /\ p.elapsed_ms = 0

\* C18 witness: get_progress in IDLE after an immediate apply has finished
\* and its COMPLETE has been ticked away.
C18_Witness ==
    /\ last_op = "get_progress"
    /\ ret.progress # NULL
    /\ ret.progress.state = FADE_STATE_IDLE
    /\ ret.progress.total_ms = 0
    /\ ret.progress.progress_percent = 0
    /\ s_fade.initialized
    /\ fade_hist.immediate
    /\ fade_hist.passed = LIGHT_PARAM_COUNT
    /\ s_fade.current = s_fade.target
    /\ s_fade.target # LightOff

\* C19: get_progress writes elapsed_ms <= total_ms and a percent in 0..100,
\* writes and returns the state of the session and writes its current, and
\* changes nothing of the session and sends nothing.
C19_ProgressInRange ==
    [][last_op' = "get_progress"
          => /\ s_fade' = s_fade
             /\ tx_log' = <<>>
             /\ last_sent' = last_sent
             /\ ret'.state = s_fade.state
             /\ ret'.progress # NULL
                   => /\ ret'.progress.elapsed_ms >= 0
                      /\ ret'.progress.elapsed_ms <= ret'.progress.total_ms
                      /\ ret'.progress.progress_percent \in 0 .. 100
                      /\ ret'.progress.state = s_fade.state
                      /\ ret'.progress.current = s_fade.current]_vars

\* C19 witness: get_progress during a fade whose duration has gone by and
\* which no tick has yet completed: the elapsed time is clamped.
C19_Witness ==
    /\ last_op = "get_progress"
    /\ ret.progress # NULL
    /\ s_fade.state = FADE_STATE_FADING
    /\ s_fade.duration_ms > 0
    /\ (clock - s_fade.fade_start_us) \div 1000 > s_fade.duration_ms
    /\ ret.progress.elapsed_ms = s_fade.duration_ms
    /\ ret.progress.progress_percent = 100
    /\ s_fade.current # s_fade.target

\* v lies between a and b.
Between(v, a, b) == (a <= v /\ v <= b) \/ (b <= v /\ v <= a)

\* C20: a successful set_current(S) changes current (to S) and the float
\* values and nothing else of the session and sends nothing; a get_current
\* right after it returns S; a start right after it takes S as the start of
\* the fade; and every value a tick interpolates lies between the start and
\* the target of the fade.
C20_SetThenGet ==
    [][/\ (last_op' = "set_current" /\ ret'.err = ESP_OK)
          => /\ s_fade'.current = ret'.state
             /\ s_fade' = [s_fade EXCEPT
                             !.current = ret'.state,
                             !.current_float = s_fade'.current_float]
             /\ tx_log' = <<>>
             /\ last_sent' = last_sent
       /\ (/\ last_op = "set_current" /\ ret.err = ESP_OK
           /\ last_op' = "get_current")
          => /\ ret'.err \in {ESP_OK, ESP_ERR_INVALID_ARG}
             /\ ret'.err = ESP_OK => ret'.state = ret.state
       /\ (/\ last_op = "set_current" /\ ret.err = ESP_OK
           /\ last_op' \in {"start", "apply_immediate"} /\ ret' = ESP_OK)
          => /\ s_fade'.start = ret.state
             /\ s_fade'.current_float =
                   [i \in Params |-> IntToFloat(get_param(ret.state, i))]
       /\ (last_op' = "tick" /\ s_fade.initialized
             /\ s_fade.state = FADE_STATE_FADING)
          => \A i \in Params :
                Between(get_param(s_fade'.current, i),
                        get_param(s_fade.start, i),
                        get_param(s_fade.target, i))]_vars

\* C20 witness: a tick of a fade started from what set_current gave has
\* taken current off the start, not yet to the target.
C20_Witness ==
    /\ last_op = "tick"
    /\ s_fade.state = FADE_STATE_FADING
    /\ s_fade.start \in SetRequests
    /\ s_fade.current # s_fade.start
    /\ s_fade.current # s_fade.target

\* C21 as stated: two sessions with the same current that are given the same
\* start, tick times and sink results attempt the same sends at each tick
\* and are COMPLETE at the same ticks.
C21_OnlyCurrentCarriesOver ==
    (Carrying /\ s_fade.start = twin.start)
       => /\ tx_log = twin_log
          /\ s_fade.state = twin.state

\* C21 amended: a start makes two sessions with the same current and the
\* same time of last transmission equal in every field, and a tick at the
\* same time with the same sink results keeps equal sessions equal and
\* attempts the same sends in both.
C21_CurrentAndLastTxCarryOver ==
    [][/\ (/\ last_op' = "carry_start"
           /\ s_fade.current = twin.current
           /\ s_fade.last_tx_us = twin.last_tx_us)
          => s_fade' = twin'
       /\ (last_op' = "carry_tick" /\ s_fade = twin)
          => /\ s_fade' = twin'
             /\ tx_log' = twin_log']_vars

\* C21 witness: the two sessions, of which one has had a send refused or
\* failed, have completed the fade begun by the common start on the same
\* tick with the same sends.
C21_Witness ==
    /\ last_op = "carry_tick"
    /\ s_fade = twin
    /\ s_fade.state = FADE_STATE_COMPLETE
    /\ tx_log # <<>>
    /\ tx_log = twin_log
    /\ calls.faults > 0
    /\ s_fade.duration_ms > 0

\* No two scenes of a list have the same name.
UniqueNames(scenes) ==
    \A i, j \in 1 .. Len(scenes) : scenes[i].name = scenes[j].name => i = j
SceneNamesOf(scenes) == [i \in 1 .. Len(scenes) |-> scenes[i].name]

\* C22: a successful save under a name that is stored replaces the values of
\* that scene and leaves the number, names and order of the scenes as they
\* were; and no two scenes of scenes.json or of the cache have the same name.
C22_SaveReplacesInPlace ==
    [][/\ UniqueNames(scene_storage'.file)
       /\ UniqueNames(scene_storage'.s_scenes)
       /\ (/\ last_op' = "scene_save" /\ ret'.err = ESP_OK
           /\ scene_storage.exists /\ scene_storage.parses
           /\ FindScene(scene_storage.file, ret'.name) > 0)
          => /\ SceneNamesOf(scene_storage'.file) = SceneNamesOf(scene_storage.file)
             /\ scene_storage'.file[FindScene(scene_storage.file, ret'.name)].values
                   = ret'.values]_vars

\* The sends of log that the sink refused as not ready.
NotReady(log) == {k \in 1 .. Len(log) : log[k].err = ESP_ERR_INVALID_STATE}
\* The sends of log that failed otherwise.
Failed(log) == Faults(log) \ NotReady(log)

\* C23: in a tick a send that fails other than by not-ready is followed by
\* the send at the next cursor position; a burst in which no send is
\* refused as not ready ends at white with the cursor back at 0 and the
\* pending flag clear, and if the duration has gone by the fade is COMPLETE.
C23_FailureSkipped ==
    [][last_op' = "tick"
          => /\ \A k \in Failed(tx_log') :
                   IF tx_log'[k].pos < LIGHT_PARAM_COUNT - 1
                   THEN /\ k < Len(tx_log')
                        /\ tx_log'[k + 1].pos = tx_log'[k].pos + 1
                   ELSE k = Len(tx_log')
             /\ (tx_log' # <<>> /\ NotReady(tx_log') = {})
                   => /\ tx_log'[Len(tx_log')].pos = LIGHT_PARAM_COUNT - 1
                      /\ s_fade'.next_param_index = 0
                      /\ ~s_fade'.tx_pending
                      /\ tick_elapsed_ms' >= s_fade.duration_ms
                            => s_fade'.state = FADE_STATE_COMPLETE]_vars

\* C23 witness: a fade has completed on a tick whose burst went through all
\* five channels although the send of one of them failed.
C23_Witness ==
    /\ last_op = "tick"
    /\ Len(tx_log) = LIGHT_PARAM_COUNT
    /\ Failed(tx_log) # {}
    /\ NotReady(tx_log) = {}
    /\ s_fade.state = FADE_STATE_COMPLETE
    /\ s_fade.duration_ms > 0
    /\ ~s_fade.tx_pending
    /\ s_fade.next_param_index = 0

\* C24: a tick in which the sink refuses the send at cursor position i as
\* not ready attempts no send after it and none at a position greater than
\* i, leaves the cursor at i and the state FADING, and returns ESP_OK.
C24_NotReadyHaltsRound ==
    [][(last_op' = "tick" /\ NotReady(tx_log') # {})
          => LET n == Len(tx_log')
                 i == tx_log'[n].pos
             IN  /\ NotReady(tx_log') = {n}
                 /\ \A k \in 1 .. n : tx_log'[k].pos <= i
                 /\ s_fade'.next_param_index = i
                 /\ s_fade'.state = FADE_STATE_FADING
                 /\ ret' = ESP_OK]_vars

\* C25: a tick of the FADING branch on which no channel's rounded value
\* changes, with no transmission pending and the cursor at brightness, sends
\* nothing and leaves the time of the last transmission as it was.
C25_QuietWhenUnchanged ==
    [][(/\ last_op' = "tick"
        /\ tick_elapsed_ms' # -1
        /\ \A i \in Params : RoundToByte(s_fade'.current_float[i])
                               = RoundToByte(s_fade.current_float[i])
        /\ ~s_fade.tx_pending
        /\ s_fade.next_param_index = 0)
          => /\ tx_log' = <<>>
             /\ s_fade'.last_tx_us = s_fade.last_tx_us]_vars

\* A silent tick of a running fade although the rate limit would have let a
\* round through: nothing pending, no round interrupted.
C25_Witness ==
    /\ FadingTick
    /\ s_fade.state = FADE_STATE_FADING
    /\ tx_log = <<>>
    /\ ~s_fade.tx_pending
    /\ s_fade.next_param_index = 0
    /\ tick_elapsed_ms > 0
    /\ clock - s_fade.last_tx_us >= MinTxIntervalUs + MaxStep

\* A tick that goes on with a round an earlier tick began.
ResumesRound(log) == log # <<>> /\ log[1].pos > 0

\* C26 (as claimed): every value sent in a round, the ones sent on resumption
\* included, is the value current had when the round began.
C26_RoundFromOneSnapshot ==
    \A k \in 1 .. Len(round_log) :
        round_log[k].value = get_param(rounds.snapshot, round_log[k].param)

\* C26 (amended): every value sent by a tick is the value current has after
\* that tick's interpolation, so the sends of one tick are one snapshot and a
\* resumed round carries the resuming tick's values for its remaining
\* channels; all values of a round are interpolations of one fade.
C26_TickFromOneSnapshot ==
    [][last_op' = "tick"
          => /\ \A k \in 1 .. Len(tx_log') :
                   tx_log'[k].value = get_param(s_fade'.current, tx_log'[k].param)
             /\ ResumesRound(tx_log')
                   => /\ s_fade'.start = s_fade.start
                      /\ s_fade'.target = s_fade.target
                      /\ s_fade'.fade_start_us = s_fade.fade_start_us
                      /\ round_log' = round_log \o tx_log']_vars

\* A resumed round whose later channels carry values that current did not
\* have when the round began.
C26_Witness ==
    /\ last_op = "tick"
    /\ ResumesRound(tx_log)
    /\ Len(round_log) > Len(tx_log)
    /\ \E k \in OkSends(tx_log) :
          tx_log[k].value # get_param(rounds.snapshot, tx_log[k].param)

\* C27: after every operation the round cursor is one of the five positions
\* 0..4, and every send handed the sink one of the five channels, the one
\* TX_ORDER names for the cursor position of the send.
C27_CursorInRange ==
    /\ s_fade.next_param_index \in 0 .. (LIGHT_PARAM_COUNT - 1)
    /\ \A k \in 1 .. Len(tx_log) :
          /\ tx_log[k].pos \in 0 .. (LIGHT_PARAM_COUNT - 1)
          /\ tx_log[k].param \in Params
          /\ tx_log[k].param = TX_ORDER[tx_log[k].pos]

\* A tick that resumed a round and ran it to the end: the cursor, which
\* reached 5 inside the call, is 0 after it.
C27_Witness ==
    /\ last_op = "tick"
    /\ ResumesRound(tx_log)
    /\ tx_log[Len(tx_log)].pos = LIGHT_PARAM_COUNT - 1
    /\ tx_log[Len(tx_log)].err # ESP_ERR_INVALID_STATE
    /\ s_fade.next_param_index = 0

\* C28: whenever the state is IDLE or COMPLETE the pending flag is false and
\* the round cursor is at brightness (position 0).
C28_NothingOutstandingAtRest ==
    s_fade.state \in {FADE_STATE_IDLE, FADE_STATE_COMPLETE}
        => ~s_fade.tx_pending /\ s_fade.next_param_index = 0

\* C29: after every tick of a fade each channel of current lies between the
\* channel's start and target, ends included, and between the value it had
\* before the tick and the target: it moves toward the target or stays, and
\* neither overshoots nor moves back.
C29_MonotoneTowardTarget ==
    [][last_op' = "tick"
          => \A i \in Params :
                LET c1 == get_param(s_fade'.current, i)
                IN  /\ Between(c1, get_param(s_fade.start, i),
                               get_param(s_fade.target, i))
                    /\ Between(c1, get_param(s_fade.current, i),
                               get_param(s_fade.target, i))]_vars

\* A tick part-way through a fade in which one channel is on its way up and
\* another on its way down.
C29_Witness ==
    /\ FadingTick
    /\ tick_elapsed_ms < s_fade.duration_ms
    /\ \E i \in Params :
          /\ get_param(s_fade.start, i) < get_param(s_fade.current, i)
          /\ get_param(s_fade.current, i) < get_param(s_fade.target, i)
    /\ \E i \in Params :
          /\ get_param(s_fade.target, i) < get_param(s_fade.current, i)
          /\ get_param(s_fade.current, i) < get_param(s_fade.start, i)

\* C30: a tick of the FADING branch at an elapsed time that has reached the
\* duration leaves current at the target on all five channels by the
\* interpolation itself, the float values being the target's exactly; and no
\* tick takes the branch that forces current to the target and sets the
\* pending flag: a tick never sets the flag, and after a tick with the
\* duration gone by the fade is COMPLETE or the round is still owed.
C30_InterpolationReachesTarget ==
    [][(last_op' = "tick" /\ tick_elapsed_ms' # -1)
          => /\ tick_elapsed_ms' >= s_fade.duration_ms
                => /\ s_fade'.current = s_fade.target
                   /\ \A i \in Params :
                         /\ RoundToByte(s_fade'.current_float[i])
                               = get_param(s_fade.target, i)
                         /\ TruncToByte(s_fade'.current_float[i])
                               = get_param(s_fade.target, i)
                   /\ \/ s_fade'.state = FADE_STATE_COMPLETE
                      \/ s_fade.tx_pending /\ s_fade'.tx_pending
                      \/ s_fade'.next_param_index # 0
             /\ s_fade'.tx_pending => s_fade.tx_pending]_vars

\* A tick well past the end of a fade whose round was refused: current is the
\* target, which differs from the start, and the fade is still FADING.
C30_Witness ==
    /\ FadingTick
    /\ s_fade.duration_ms > 0
    /\ tick_elapsed_ms > s_fade.duration_ms
    /\ s_fade.state = FADE_STATE_FADING
    /\ s_fade.current = s_fade.target
    /\ s_fade.current # s_fade.start

\* floor(e * k / d) for 0 <= e <= d < 2^30, k given by its binary digits,
\* computed without a product: [q, r] with e * k = q * d + r.
RECURSIVE MulDiv(_, _, _, _, _)
MulDiv(e, d, bits, q, r) ==
    IF bits = <<>> THEN q
    ELSE LET r1 == 2 * r
             q1 == 2 * q + (IF r1 >= d THEN 1 ELSE 0)
             r2 == (IF r1 >= d THEN r1 - d ELSE r1)
                      + (IF Head(bits) = 1 THEN e ELSE 0)
         IN  MulDiv(e, d, Tail(bits),
                    q1 + (IF r2 >= d THEN 1 ELSE 0),
                    IF r2 >= d THEN r2 - d ELSE r2)

\* floor(e * 100 / d); 100 is 1100100 in binary.
ExactPercent(e, d) == MulDiv(e, d, <<1, 1, 0, 0, 1, 0, 0>>, 0, 0)

\* C31: during a fade with duration above 0 the percent get_progress reports
\* is floor(min(elapsedMs, totalMs) * 100 / totalMs), and it does not go down
\* from one query to the next.
C31_PercentExactAndMonotone ==
    [][(last_op' = "get_progress" /\ s_fade.state = FADE_STATE_FADING
           /\ s_fade.duration_ms > 0)
          => /\ ret'.progress.progress_percent
                   = ExactPercent(ret'.progress.elapsed_ms,
                                  ret'.progress.total_ms)
             /\ last_op = "get_progress"
                   => ret'.progress.progress_percent
                         >= ret.progress.progress_percent]_vars

\* C32: is_active returns true exactly when the controller is initialized and
\* FADING, so false in IDLE and in COMPLETE, and changes nothing; called right
\* after a start or an apply_immediate that returned ESP_OK it returns true,
\* and right after an abort false.
C32_ActiveIffFading ==
    [][last_op' = "is_active"
          => /\ ret' = (s_fade.initialized
                          /\ s_fade.state = FADE_STATE_FADING)
             /\ s_fade.state \in {FADE_STATE_IDLE, FADE_STATE_COMPLETE}
                   => ret' = FALSE
             /\ s_fade' = s_fade
             /\ (last_op \in {"start", "apply_immediate"} /\ ret = ESP_OK)
                   => ret' = TRUE
             /\ last_op = "abort" => ret' = FALSE]_vars

\* is_active called in COMPLETE, before the tick that consumes it.
C32_Witness ==
    /\ last_op = "is_active"
    /\ ret = FALSE
    /\ s_fade.initialized
    /\ s_fade.state = FADE_STATE_COMPLETE

\* C33: the first fade_controller_init leaves the state IDLE and current all
\* zero; a later one returns ESP_OK and leaves the session as it is; neither
\* sends anything.
C33_InitOnce ==
    [][last_op' = "init"
          => /\ ret' = ESP_OK
             /\ tx_log' = <<>>
             /\ last_sent' = last_sent
             /\ IF s_fade.initialized
                THEN s_fade' = s_fade
                ELSE /\ s_fade'.initialized
                     /\ s_fade'.state = FADE_STATE_IDLE
                     /\ s_fade'.current = LightOff]_vars

\* fade_controller_init called again part-way through a fade: the fade goes
\* on from where it was.
C33_Witness ==
    /\ last_op = "init"
    /\ s_fade.state = FADE_STATE_FADING
    /\ s_fade.duration_ms > 0
    /\ s_fade.next_param_index # 0
    /\ s_fade.current # s_fade.start
    /\ s_fade.current # s_fade.target

\* C34: lcc_node_send_lighting_event returns ESP_ERR_INVALID_STATE exactly
\* when the status is not RUNNING or there is no stack, and then hands the
\* stack no event; with the status RUNNING and a parameter in 0..4 it hands
\* the stack exactly one event and returns ESP_OK; so for a parameter in 0..4
\* it never returns another error.
C34_NotReadyIffNotRunning ==
    [][last_op' = "send_lighting_event"
          => LET running == lcc_node.s_status = LCC_STATUS_RUNNING
                               /\ lcc_node.s_stack
             IN  /\ (ret' = ESP_ERR_INVALID_STATE) <=> ~running
                 /\ ret' # ESP_OK => lcc_node'.sent = <<>>
                 /\ (running /\ lcc_node'.args.parameter \in Params)
                       => ret' = ESP_OK /\ Len(lcc_node'.sent) = 1
                 /\ lcc_node'.args.parameter \in Params
                       => ret' \in {ESP_OK, ESP_ERR_INVALID_STATE}
                 /\ lcc_node'.s_status = lcc_node.s_status
                 /\ lcc_node'.s_base_event_id = lcc_node.s_base_event_id]_vars

\* A send refused after a shutdown, the stack still there.
C34_Witness ==
    /\ last_op = "send_lighting_event"
    /\ ret = ESP_ERR_INVALID_STATE
    /\ lcc_node.s_stack
    /\ lcc_node.s_status = LCC_STATUS_UNINITIALIZED
    /\ lcc_node.args.parameter \in Params
    /\ lcc_node.sent = <<>>

\* C35: the event id a successful send hands the stack has the six upper
\* bytes of s_base_event_id as the call read it, the parameter in byte 6 and
\* the value in byte 7, whatever the two low bytes of the base are; and no
\* other parameter in 0..4 and value in 0..255 gives the same event id with
\* that base.
C35_EventIdLayout ==
    [][(last_op' = "send_lighting_event" /\ ret' = ESP_OK)
          => LET ev   == lcc_node'.sent[1]
                 base == lcc_node.s_base_event_id
                 a    == lcc_node'.args
             IN  /\ \A i \in 1 .. 6 : ev[i] = base[i]
                 /\ ev[7] = a.parameter
                 /\ ev[8] = a.value
                 /\ \A p \in Params, v \in Bytes :
                       EventId(base, p, v) = ev
                           => p = a.parameter /\ v = a.value]_vars

\* A send with a base whose two low bytes are not zero.
C35_Witness ==
    /\ last_op = "send_lighting_event"
    /\ ret = ESP_OK
    /\ lcc_node.s_base_event_id[7] = 255
    /\ lcc_node.s_base_event_id[8] = 255
    /\ lcc_node.sent[1][7] = 2
    /\ lcc_node.sent[1][8] = 128

\* scenes.json is readable and holds as many scenes as the store takes.
FullCard(st) == st.exists /\ st.parses /\ Len(st.file) = MaxScenes
\* The name is one a save accepts.
GivenName(name) == name # NullName /\ name # <<>>

\* C36 as claimed: scenes.json and the cache never hold more than
\* SCENE_STORAGE_MAX_SCENES scenes; a save of a name that is not stored, made
\* when scenes.json holds that many, returns ESP_ERR_NO_MEM and leaves
\* scenes.json and the cached scene list as they were; a save of a stored
\* name at that point is not refused and fails only if the write fails.
C36_FullStoreUnchanged ==
    [][last_op' = "scene_save"
          => /\ Len(scene_storage'.file) <= MaxScenes
             /\ Len(scene_storage'.s_scenes) <= MaxScenes
             /\ (FullCard(scene_storage) /\ GivenName(ret'.name))
                   => IF FindScene(scene_storage.file, ret'.name) = 0
                      THEN /\ ret'.err = ESP_ERR_NO_MEM
                           /\ scene_storage'.file = scene_storage.file
                           /\ scene_storage'.exists /\ scene_storage'.parses
                           /\ scene_storage'.s_scenes = scene_storage.s_scenes
                      ELSE /\ ret'.err \in {ESP_OK, ESP_FAIL}
                           /\ ret'.err = ESP_FAIL
                                 => \/ ~scene_storage'.parses
                                    \/ scene_storage'.file = scene_storage.file]_vars

\* C36 amended: the same, but the refused save leaves the cached scene list
\* holding the scenes of scenes.json, which is how it was only if the cache
\* was in step with the file before the call.
C36_FullStoreRefusesNewName ==
    [][last_op' = "scene_save"
          => /\ Len(scene_storage'.file) <= MaxScenes
             /\ Len(scene_storage'.s_scenes) <= MaxScenes
             /\ (FullCard(scene_storage) /\ GivenName(ret'.name))
                   => IF FindScene(scene_storage.file, ret'.name) = 0
                      THEN /\ ret'.err = ESP_ERR_NO_MEM
                           /\ scene_storage'.file = scene_storage.file
                           /\ scene_storage'.exists /\ scene_storage'.parses
                           /\ scene_storage'.s_scenes = scene_storage.file
                      ELSE /\ ret'.err \in {ESP_OK, ESP_FAIL}
                           /\ ret'.err = ESP_FAIL
                                 => \/ ~scene_storage'.parses
                                    \/ scene_storage'.file = scene_storage.file]_vars

\* C36 witness: a save has been refused with ESP_ERR_NO_MEM, the card holding
\* as many scenes as the store takes, scenes saved by the program among them.
C36_Witness ==
    /\ last_op = "scene_save"
    /\ ret.err = ESP_ERR_NO_MEM
    /\ FullCard(scene_storage)
    /\ scene_storage.s_scenes = scene_storage.file
    /\ \E i \in 1 .. MaxScenes : Len(scene_storage.file[i].name) = NameCap

\* The scenes stored in scenes.json: none if it is absent or unreadable.
StoredScenes(st) == IF st.exists /\ st.parses THEN st.file ELSE <<>>
\* scenes.json itself: whether it is there and readable, and its scenes.
ScenesJson(st) == [exists |-> st.exists, parses |-> st.parses, file |-> st.file]

\* C37: a scene_storage_delete(name) that returns ESP_OK has removed from
\* scenes.json the first scene of that name and nothing else, the others
\* keeping their order, and the count is one less; when no stored scene has
\* the name it returns ESP_ERR_NOT_FOUND and scenes.json is as it was.
\* (Stated of cards without a scenes.tmp.)
C37_DeleteRemovesOne ==
    [][(/\ last_op' = "scene_delete" /\ GivenName(ret'.name)
        /\ ~scene_storage.tmp.exists)
          => LET stored == StoredScenes(scene_storage)
                 found_idx == FindScene(stored, ret'.name)
             IN  IF found_idx > 0
                 THEN /\ ret'.err \in {ESP_OK, ESP_FAIL}
                      /\ ret'.err = ESP_OK
                            => /\ StoredScenes(scene_storage') =
                                     RemoveScene(stored, found_idx)
                               /\ scene_storage_get_count(scene_storage') =
                                     Len(stored) - 1
                 ELSE /\ ret'.err = ESP_ERR_NOT_FOUND
                      /\ ScenesJson(scene_storage') = ScenesJson(scene_storage)]_vars

\* C38: a scene_storage_load made when scenes.json is absent and a readable
\* scenes.tmp exists returns ESP_OK with the scenes of scenes.tmp, and
\* afterwards scenes.json exists with that content.
C38_LoadRecoversFromTmp ==
    [][(/\ last_op' = "scene_load"
        /\ ~scene_storage.exists
        /\ scene_storage.tmp.exists /\ scene_storage.tmp.parses)
          => /\ ret'.err = ESP_OK
             /\ scene_storage'.s_scenes =
                   LoadedScenes(scene_storage.tmp.file, MaxScenes)
             /\ ScenesJson(scene_storage') = scene_storage.tmp]_vars

\* The calls of the scene store.
SceneOps == {"scene_init", "scene_load", "scene_save", "scene_delete"}

\* C39: after a call of the scene store that returned ESP_OK, made on a card
\* without scenes.tmp, scene_storage_get_count is the number of scenes
\* stored in scenes.json, scene_storage_get_first gives the first of them,
\* or ESP_ERR_NOT_FOUND when none is stored, and the cache holds just the
\* scenes of scenes.json.
C39_CacheMatchesFile ==
    [][(/\ last_op' \in SceneOps
        /\ ret'.err = ESP_OK
        /\ ~scene_storage.tmp.exists)
          => LET stored == StoredScenes(scene_storage')
             IN  /\ scene_storage_get_count(scene_storage') = Len(stored)
                 /\ scene_storage_get_first(scene_storage') =
                       IF stored = <<>>
                       THEN [err |-> ESP_ERR_NOT_FOUND, scene |-> NULL]
                       ELSE [err |-> ESP_OK, scene |-> stored[1]]
                 /\ scene_storage'.s_scenes = stored]_vars

====
